---- MODULE Spec2Model ----
(***************************************************************************)
(* The news pipeline of Inform-Me-Bot (src/src/logic.py):                  *)
(*   fetch_recent_news -> filter_recent_news -> cluster_news_titles ->     *)
(*   format_clusters_for_telegram                                          *)
(* A text is a sequence of one-character strings, so that slicing,         *)
(* str.replace, str.strip and len are computed as the code computes them.  *)
(* The characters this notation cannot write in a string are named:       *)
(* "BACKTICK" is the backquote, "BULLET" is U+2022 and "RULE" is U+2500;   *)
(* each is one character of a text.                                        *)
(* Times are whole hours.  Similarities are tenths (0..10 for 0.0..1.0).   *)
(***************************************************************************)
EXTENDS Integers, Sequences, FiniteSets, TLC

VARIABLES
    pc,            \* the control point of the function under execution
    topic,         \* fetch_recent_news: the topic argument, a text or None
    location,      \* fetch_recent_news: the location argument
    language,      \* fetch_recent_news: the language argument
    feed_source,   \* what the feed endpoint answers to the 1st, 2nd, 3rd query
    queries,       \* the (location, language) queries issued so far, in order
    feeds,         \* the entry list a function is given or has returned
    now,           \* datetime.now(timezone.utc), in hours
    recent_feeds,  \* the list returned by filter_recent_news
    encoder,       \* whether SentenceTransformer(...) can be constructed
    similarity,    \* the matrix cosine_similarity returns, in tenths
    threshold,     \* similarity_threshold, in tenths
    clusters,      \* the cluster mapping (a dict, in insertion order)
    max_clusters,  \* format_clusters_for_telegram: the max_clusters argument
    messages,      \* the list returned by format_clusters_for_telegram
    sent,          \* the messages handed to send_message for one chat, in order
    loads,         \* how often the process has loaded the sentence encoder
    users,         \* send_daily_updates: the users the database returned
    attempted,     \* send_daily_updates: the ids of the users greeted so far
    caught,        \* send_daily_updates: the ids whose iteration ended in except
    error          \* the exception a function raised, or NoError

vars == <<pc, topic, location, language, feed_source, queries, feeds, now,
          recent_feeds, encoder, similarity, threshold, clusters,
          max_clusters, messages, sent, loads, users, attempted, caught,
          error>>

\* an exception: its class and the text str(e) gives
Exception(type, message) == [type |-> type, message |-> message]

\* nothing was raised
NoError == Exception("none", <<>>)

\* the exception is an ImportError or of its subclass ModuleNotFoundError
IsImportError(e) == e.type \in {"ImportError", "ModuleNotFoundError"}

(***************************************************************************)
(* Python's built-in text operations                                       *)
(***************************************************************************)
Min(a, b) == IF a < b THEN a ELSE b

RECURSIVE SumSeq(_)
SumSeq(s) == IF s = <<>> THEN 0 ELSE Head(s) + SumSeq(Tail(s))

\* c * n
Rep(c, n) == [i \in 1..n |-> c]

\* text[:n]; a negative n counts from the end
Take(text, n) ==
    IF n >= 0 THEN SubSeq(text, 1, Min(n, Len(text)))
    ELSE IF Len(text) + n > 0 THEN SubSeq(text, 1, Len(text) + n)
    ELSE <<>>

\* "".join(parts) for parts[lo..hi]
RECURSIVE JoinRange(_, _, _)
JoinRange(parts, lo, hi) ==
    IF lo > hi THEN <<>>
    ELSE IF lo = hi THEN parts[lo]
    ELSE LET mid == (lo + hi) \div 2
         IN  JoinRange(parts, lo, mid) \o JoinRange(parts, mid + 1, hi)

Join(parts) == JoinRange(parts, 1, Len(parts))

\* text.replace(old, new) for a one-character old
Replace(text, old, new) ==
    Join([i \in 1..Len(text) |-> IF text[i] = old THEN new ELSE <<text[i]>>])

\* the characters str.strip() removes and \s matches: the ASCII ones, the
\* vertical tab, the separators 0x1c..0x1f, the next-line character 0x85,
\* the no-break space 0xa0 and the other Unicode spaces
Whitespace ==
    {"\t", "\n", "VT", "\f", "\r", "FS", "GS", "RS", "US", " ", "NEL", "NBSP",
     "U1680", "U2000", "U2001", "U2002", "U2003", "U2004", "U2005", "U2006",
     "U2007", "U2008", "U2009", "U200A", "U2028", "U2029", "U202F", "U205F",
     "U3000"}

\* the first index from i upward that holds no whitespace
RECURSIVE SkipLeft(_, _)
SkipLeft(text, i) ==
    IF i <= Len(text) /\ text[i] \in Whitespace THEN SkipLeft(text, i + 1) ELSE i

\* the last index from i downward that holds no whitespace
RECURSIVE SkipRight(_, _)
SkipRight(text, i) ==
    IF i >= 1 /\ text[i] \in Whitespace THEN SkipRight(text, i - 1) ELSE i

\* text.strip()
Strip(text) == SubSeq(text, SkipLeft(text, 1), SkipRight(text, Len(text)))

\* str(n) for n >= 0
Digit(d) == <<"0", "1", "2", "3", "4", "5", "6", "7", "8", "9">>[d + 1]

RECURSIVE Str(_)
Str(n) == IF n < 10 THEN <<Digit(n)>> ELSE Str(n \div 10) \o <<Digit(n % 10)>>

\* dict.get(key, default)
Get(d, key, default) == IF key \in DOMAIN d THEN d[key] ELSE default

(***************************************************************************)
(* escape_markdown_v2                                                      *)
(***************************************************************************)
special_chars ==
    <<"_", "*", "[", "]", "(", ")", "~", "BACKTICK", ">", "#", "+", "-", "=", "|",
      "{", "}", ".", "!">>

\* the loop of escape_markdown_v2 from the k-th special character on
\* (the test on Len makes the replaced text a value before the next round)
RECURSIVE EscapeFrom(_, _)
EscapeFrom(text, k) ==
    IF k > Len(special_chars) \/ Len(text) < 0 THEN text
    ELSE EscapeFrom(Replace(text, special_chars[k], <<"\\", special_chars[k]>>),
                    k + 1)

escape_markdown_v2(text) == EscapeFrom(text, 1)

(***************************************************************************)
(* format_clusters_for_telegram                                            *)
(* A cluster mapping is a sequence of [cid, arts] in dict insertion order; *)
(* an article is [title, link, published, source].                         *)
(***************************************************************************)
MessageBudget == 3900
ClusterTitleLen == 120
ArticleTitleLen == 100
SourceLen == 30
ArticlesPerCluster == 5
SingleArticles == 10
SeparatorLen == 35

\* sorted(clusters.items(), key=lambda x: len(x[1]), reverse=True): stable
sorted_clusters(cl) ==
    LET rank(i) == Cardinality({j \in 1..Len(cl) :
                        \/ Len(cl[j].arts) > Len(cl[i].arts)
                        \/ Len(cl[j].arts) = Len(cl[i].arts) /\ j < i}) + 1
    IN  [k \in 1..Len(cl) |-> cl[CHOOSE i \in 1..Len(cl) : rank(i) = k]]

IsMulti(c) == Len(c.arts) > 1
IsSingle(c) == Len(c.arts) = 1

\* [(arts[0]["title"], arts) for cid, arts in sorted_clusters if len(arts) > 1]
multi_article_clusters(cl) ==
    LET m == SelectSeq(sorted_clusters(cl), IsMulti)
    IN  [k \in 1..Len(m) |-> [cluster_title |-> m[k].arts[1].title,
                              articles |-> m[k].arts]]

\* [arts[0] for cid, arts in sorted_clusters if len(arts) == 1]
single_article_cluster(cl) ==
    LET s == SelectSeq(sorted_clusters(cl), IsSingle)
    IN  [k \in 1..Len(s) |-> s[k].arts[1]]

cluster_title_escaped(cluster_title) ==
    escape_markdown_v2(Take(cluster_title, ClusterTitleLen))

title_escaped(article) == escape_markdown_v2(Take(article.title, ArticleTitleLen))

source_escaped(article) == escape_markdown_v2(Take(article.source, SourceLen))

\* ArticleText with the title escaped a second time
ArticleTextEscapedTwice(article) ==
    <<" ", " ", "BULLET", " ", "[">>
        \o escape_markdown_v2(title_escaped(article)) \o <<"]", "(">>
        \o Strip(article.link) \o <<")", "\n">>
        \o <<" ", " ", " ", " ", "_", "v", "i", "a", " ">>
        \o source_escaped(article) \o <<"_", "\n", "\n">>

\* the two lines one article adds to a block
ArticleText(article) ==
    <<" ", " ", "BULLET", " ", "[">> \o title_escaped(article) \o <<"]", "(">>
        \o Strip(article.link) \o <<")", "\n">>
        \o <<" ", " ", " ", " ", "_", "v", "i", "a", " ">>
        \o source_escaped(article) \o <<"_", "\n", "\n">>

ArticlesText(articles, limit) ==
    Join([k \in 1..Min(limit, Len(articles)) |-> ArticleText(articles[k])])

Separator == Rep("RULE", SeparatorLen) \o <<"\n", "\n">>

MoreRelatedNote(remaining) ==
    <<" ", " ", "_", "\\", ".", "\\", ".", "\\", ".", "a", "n", "d", " ">>
        \o Str(remaining)
        \o <<" ", "m", "o", "r", "e", " ", "r", "e", "l", "a", "t", "e", "d", " ",
             "a", "r", "t", "i", "c", "l", "e", "s", "_", "\n", "\n">>

MoreArticlesNote(remaining) ==
    <<" ", " ", "_", "\\", ".", "\\", ".", "\\", ".", "a", "n", "d", " ">>
        \o Str(remaining)
        \o <<" ", "m", "o", "r", "e", " ", "a", "r", "t", "i", "c", "l", "e", "s",
             "_", "\n", "\n">>

\* the block of one multi-article cluster
cluster_text(c) ==
    <<"*">> \o cluster_title_escaped(c.cluster_title) \o <<"*", "\n", "\n">>
        \o ArticlesText(c.articles, ArticlesPerCluster)
        \o (IF Len(c.articles) > ArticlesPerCluster
            THEN MoreRelatedNote(Len(c.articles) - ArticlesPerCluster)
            ELSE <<>>)
        \o Separator

\* the block of the single-article clusters
single_text(singles) ==
    <<"*">>
        \o escape_markdown_v2(<<"M", "i", "x", "e", "d", " ", "A", "r", "t", "i",
                                "c", "l", "e", "s">>)
        \o <<"*", "\n", "\n">>
        \o ArticlesText(singles, SingleArticles)
        \o (IF Len(singles) > SingleArticles
            THEN MoreArticlesNote(Len(singles) - SingleArticles)
            ELSE <<>>)
        \o Separator

header == <<>>

\* AddBlock never closing the running message
AddBlockWithoutCheck(st, block) ==
    [messages |-> st.messages,
     current_message |-> st.current_message \o block]

\* the length check: close the running message or extend it
AddBlock(st, block) ==
    IF Len(st.current_message \o block) > MessageBudget
    THEN [messages |-> Append(st.messages, st.current_message),
          current_message |-> header \o block]
    ELSE [messages |-> st.messages,
          current_message |-> st.current_message \o block]

RECURSIVE AddBlocks(_, _, _)
AddBlocks(st, blocks, k) ==
    IF k > Len(blocks) THEN st
    ELSE AddBlocks(AddBlock(st, blocks[k]), blocks, k + 1)

NoClusteredNews ==
    <<"N", "o", " ", "c", "l", "u", "s", "t", "e", "r", "e", "d", " ", "n", "e",
      "w", "s", " ", "f", "o", "u", "n", "d", "\\", ".">>

NoNewsFound ==
    <<"N", "o", " ", "n", "e", "w", "s", " ", "f", "o", "u", "n", "d", " ", "f",
      "o", "r", " ", "y", "o", "u", "r", " ", "q", "u", "e", "r", "y", "\\", ".">>

\* the blocks in the order they are handed to the length check
RenderedBlocks(cl, maxc) ==
    LET multi == Take(multi_article_clusters(cl), maxc)
        singles == single_article_cluster(cl)
    IN  [k \in 1..Len(multi) |-> cluster_text(multi[k])]
            \o (IF singles # <<>> THEN <<single_text(singles)>> ELSE <<>>)

\* the list the function builds once past its early return
PackedMessages(cl, maxc) ==
    LET st == AddBlocks([messages |-> <<>>, current_message |-> header],
                        RenderedBlocks(cl, maxc), 1)
        out == IF st.current_message # <<>> /\ st.current_message # header
               THEN Append(st.messages, st.current_message)
               ELSE st.messages
    IN  IF out # <<>> THEN out ELSE <<NoNewsFound>>

\* format_clusters_for_telegram returning early only for an empty mapping
FormatEarlyReturnOnEmptyOnly(cl, maxc) ==
    IF cl = <<>> THEN <<NoClusteredNews>> ELSE PackedMessages(cl, maxc)

format_clusters_for_telegram(cl, maxc) ==
    IF multi_article_clusters(cl) = <<>> THEN <<NoClusteredNews>>
    ELSE PackedMessages(cl, maxc)

(***************************************************************************)
(* fetch_rss_news, fetch_recent_news                                       *)
(* A feed entry is a record that holds only the fields the feed supplied.  *)
(* feed_source[i] is what feedparser.parse does on the i-th query:         *)
(* [raised, bozo, entries].  raised is the exception that leaves parse     *)
(* (NoError when it returns); bozo tells that the endpoint was unreachable *)
(* or that its answer is not well formed, and entries holds what could be  *)
(* read all the same.                                                      *)
(***************************************************************************)
\* a request that was answered with a well-formed feed
Answer(entries) == [raised |-> NoError, bozo |-> FALSE, entries |-> entries]

\* a feed that is not well formed: the flag, and the entries read from it
Damaged(entries) == [raised |-> NoError, bozo |-> TRUE, entries |-> entries]

\* a request that failed and is reported through the flag alone
Failed == Damaged(<<>>)

\* a request during which an exception leaves feedparser.parse
Raised(e) == [raised |-> e, bozo |-> TRUE, entries |-> <<>>]

\* the connection is closed while the answer is read
FeedFailure ==
    Exception("RemoteDisconnected",
        <<"R", "e", "m", "o", "t", "e", " ", "e", "n", "d", " ", "c", "l",
          "o", "s", "e", "d", " ", "c", "o", "n", "n", "e", "c", "t", "i",
          "o", "n", " ", "w", "i", "t", "h", "o", "u", "t", " ", "r", "e",
          "s", "p", "o", "n", "s", "e">>)

\* a topic, and the None of a user row whose topic column is NULL; no text
\* holds the token of NoTopic
Topic == <<"n", "e", "w", "s">>
NoTopic == <<"NONE">>

\* None.replace(" ", "+")
TopicFailure ==
    Exception("AttributeError",
        <<"'", "N", "o", "n", "e", "T", "y", "p", "e", "'", " ", "o", "b",
          "j", "e", "c", "t", " ", "h", "a", "s", " ", "n", "o", " ", "a",
          "t", "t", "r", "i", "b", "u", "t", "e", " ", "'", "r", "e", "p",
          "l", "a", "c", "e", "'">>)

\* for loc, lang in [(location, language), ("US", language), (location, "en")]
QueryList(loc, lang) == << <<loc, lang>>, <<"US", lang>>, <<loc, "en">> >>

\* fetch_rss_news: query = topic.replace(" ", "+");
\* feed = feedparser.parse(url); return feed.entries
fetch_rss_news(tp, source, i) ==
    IF tp = NoTopic THEN [error |-> TopicFailure, value |-> <<>>]
    ELSE IF source[i].raised # NoError
    THEN [error |-> source[i].raised, value |-> <<>>]
    ELSE [error |-> NoError, value |-> source[i].entries]

\* AddEntry letting a later entry replace the one kept for its link
AddEntryLastWins(acc, entry) ==
    IF Get(entry, "link", <<>>) = <<>> THEN acc
    ELSE IF Get(entry, "link", <<>>) \notin acc.seen_links
    THEN [acc EXCEPT !.seen_links = @ \cup {Get(entry, "link", <<>>)},
                     !.feeds = Append(@, entry)]
    ELSE [acc EXCEPT !.feeds =
            [k \in 1..Len(acc.feeds) |->
                IF Get(acc.feeds[k], "link", <<>>) = Get(entry, "link", <<>>)
                THEN entry ELSE acc.feeds[k]]]

\* the body of the inner loop, for one entry
AddEntry(acc, entry) ==
    IF Get(entry, "link", <<>>) # <<>>
       /\ Get(entry, "link", <<>>) \notin acc.seen_links
    THEN [acc EXCEPT !.seen_links = @ \cup {Get(entry, "link", <<>>)},
                     !.feeds = Append(@, entry)]
    ELSE acc

RECURSIVE AddEntries(_, _, _)
AddEntries(acc, entries, k) ==
    IF k > Len(entries) THEN acc
    ELSE AddEntries(AddEntry(acc, entries[k]), entries, k + 1)

\* one turn of the outer loop on what fetch_rss_news gave: an exception ends
\* the call; acc also logs the requests made
FetchStep(acc, tp, result, query) ==
    IF result.error # NoError
    THEN [acc EXCEPT !.error = result.error,
                     !.queries = IF tp = NoTopic THEN @ ELSE Append(@, query)]
    ELSE [AddEntries(acc, result.value, 1)
             EXCEPT !.queries = Append(acc.queries, query)]

\* the outer loop from the i-th query on
RECURSIVE FetchFrom(_, _, _, _, _)
FetchFrom(acc, tp, source, qs, i) ==
    IF i > Len(qs) \/ acc.error # NoError THEN acc
    ELSE FetchFrom(FetchStep(acc, tp, fetch_rss_news(tp, source, i), qs[i]),
                   tp, source, qs, i + 1)

\* [error, feeds, queries]: the exception raised or NoError, the list
\* returned, the requests made
fetch_recent_news(tp, source, loc, lang) ==
    FetchFrom([seen_links |-> {}, feeds |-> <<>>, queries |-> <<>>,
               error |-> NoError],
              tp, source, QueryList(loc, lang), 1)

(***************************************************************************)
(* filter_recent_news                                                      *)
(* published_parsed, when the entry holds it, is None or the parsed time,  *)
(* a tuple; here the tuple holds the one number of hours it denotes.       *)
(***************************************************************************)
None == <<>>
TwoDays == 48

\* entry.published_parsed[:6] of an entry whose published_parsed is None
RaisesTypeError(entry) ==
    "published_parsed" \in DOMAIN entry /\ entry.published_parsed = None

\* IsRecent keeping an entry that is exactly two days old
IsRecentInclusive(entry, t) ==
    "published_parsed" \in DOMAIN entry
        /\ entry.published_parsed[1] >= t - TwoDays

\* the condition of the comprehension, for an entry it does not raise on
IsRecent(entry, t) ==
    "published_parsed" \in DOMAIN entry
        /\ entry.published_parsed[1] > t - TwoDays

KeepRecent(fs, t) ==
    LET keep(entry) == IsRecent(entry, t) IN SelectSeq(fs, keep)

\* the TypeError of None[:6]
NoneNotSubscriptable ==
    Exception("TypeError",
        <<"'", "N", "o", "n", "e", "T", "y", "p", "e", "'", " ", "o", "b",
          "j", "e", "c", "t", " ", "i", "s", " ", "n", "o", "t", " ", "s",
          "u", "b", "s", "c", "r", "i", "p", "t", "a", "b", "l", "e">>)

\* [error, value]: the exception raised, or NoError and the list returned
filter_recent_news(fs, t) ==
    IF \E i \in 1..Len(fs) : RaisesTypeError(fs[i])
    THEN [error |-> NoneNotSubscriptable, value |-> <<>>]
    ELSE [error |-> NoError, value |-> KeepRecent(fs, t)]

(***************************************************************************)
(* cluster_news_titles, cluster_news_titles_tfidf                          *)
(* sim is the matrix cosine_similarity returns for the titles, in tenths;  *)
(* AgglomerativeClustering (average linkage, precomputed distances,        *)
(* distance_threshold) merges the two closest groups while their average   *)
(* distance is below the threshold.                                        *)
(***************************************************************************)
Scale == 10

\* distance_matrix = 1 - similarity_matrix
distance_matrix(sim) ==
    [i \in DOMAIN sim |-> [j \in DOMAIN sim[i] |-> Scale - sim[i][j]]]

\* distance_threshold without the complement
DistanceThresholdIsSimilarity(similarity_threshold) == similarity_threshold

\* distance_threshold=1 - similarity_threshold
distance_threshold(similarity_threshold) == Scale - similarity_threshold

RECURSIVE SetSum(_, _)
SetSum(S, f) ==
    IF S = {} THEN 0
    ELSE LET x == CHOOSE y \in S : TRUE IN f[x] + SetSum(S \ {x}, f)

\* average linkage of groups A and B as a fraction: the sum of the pairwise
\* distances over the number of pairs
LinkSum(A, B, dist) == SetSum(A \X B, [p \in A \X B |-> dist[p[1]][p[2]]])
LinkCount(A, B) == Cardinality(A) * Cardinality(B)

MinOf(S) == CHOOSE x \in S : \A y \in S : x <= y

\* a pair of groups <<A, B>> with MinOf(A) < MinOf(B)
GroupPairs(part) == {p \in part \X part : MinOf(p[1]) < MinOf(p[2])}

\* p links strictly closer than q, or as close and earlier in index order
LinksBefore(p, q, dist) ==
    LET lp == LinkSum(p[1], p[2], dist) * LinkCount(q[1], q[2])
        lq == LinkSum(q[1], q[2], dist) * LinkCount(p[1], p[2])
    IN  \/ lp < lq
        \/ lp = lq /\ \/ MinOf(p[1]) < MinOf(q[1])
                      \/ MinOf(p[1]) = MinOf(q[1]) /\ MinOf(p[2]) <= MinOf(q[2])

ClosestPair(part, dist) ==
    CHOOSE p \in GroupPairs(part) :
        \A q \in GroupPairs(part) : LinksBefore(p, q, dist)

\* one merge of the linkage tree: the closest pair p is joined while its
\* average distance is below the cutoff
RECURSIVE Agglomerate(_, _, _)
MergePair(part, p, dist, cutoff) ==
    IF LinkSum(p[1], p[2], dist) < cutoff * LinkCount(p[1], p[2])
    THEN Agglomerate((part \ {p[1], p[2]}) \cup {p[1] \cup p[2]}, dist, cutoff)
    ELSE part

Agglomerate(part, dist, cutoff) ==
    IF Cardinality(part) < 2 THEN part
    ELSE MergePair(part, ClosestPair(part, dist), dist, cutoff)

\* the labels: here the groups are numbered from 0 in the order of their
\* first sample; the library's numbering may differ, and the label is only
\* the key of the mapping, which no later step reads
LabelsOf(part, n) ==
    [i \in 1..n |->
        Cardinality({g \in part :
                        MinOf(g) < MinOf(CHOOSE h \in part : i \in h)})]

\* clustering.fit_predict(distance_matrix): the label of every sample
fit_predict(dist, cutoff) ==
    LabelsOf(Agglomerate({{i} : i \in 1..Len(dist)}, dist, cutoff), Len(dist))

cluster_info(entry) ==
    [title |-> Get(entry, "title", <<>>),
     link |-> Get(entry, "link", <<>>),
     published |-> Get(entry, "published", <<>>),
     source |-> Get(Get(entry, "source", <<>>), "title",
                    <<"U", "n", "k", "n", "o", "w", "n">>)]

\* clusters[int(label)].append(cluster_info) on the defaultdict
AppendToCluster(cl, label, info) ==
    IF \E k \in 1..Len(cl) : cl[k].cid = label
    THEN [k \in 1..Len(cl) |->
            IF cl[k].cid = label
            THEN [cid |-> label, arts |-> Append(cl[k].arts, info)]
            ELSE cl[k]]
    ELSE Append(cl, [cid |-> label, arts |-> <<info>>])

\* for idx, label in enumerate(labels): ...
RECURSIVE GroupByLabel(_, _, _, _)
GroupByLabel(cl, fs, labels, idx) ==
    IF idx > Len(labels) THEN cl
    ELSE GroupByLabel(AppendToCluster(cl, labels[idx], cluster_info(fs[idx])),
                      fs, labels, idx + 1)

\* the ValueError of fit_predict on n samples, n < 2
TooFewSamples(n) ==
    Exception("ValueError",
        <<"F", "o", "u", "n", "d", " ", "a", "r", "r", "a", "y", " ", "w",
          "i", "t", "h", " ">> \o Str(n) \o
        <<" ", "s", "a", "m", "p", "l", "e", "(", "s", ")", " ", "(", "s",
          "h", "a", "p", "e", "=", "(">> \o Str(n) \o
        <<",", " ">> \o Str(n) \o
        <<")", ")", " ", "w", "h", "i", "l", "e", " ", "a", " ", "m", "i",
          "n", "i", "m", "u", "m", " ", "o", "f", " ", "2", " ", "i", "s",
          " ", "r", "e", "q", "u", "i", "r", "e", "d", " ", "b", "y", " ",
          "A", "g", "g", "l", "o", "m", "e", "r", "a", "t", "i", "v", "e",
          "C", "l", "u", "s", "t", "e", "r", "i", "n", "g", ".">>)

\* the part both functions share, from the similarity matrix on;
\* fit_predict refuses fewer than two samples
ClusterBySimilarity(fs, sim, similarity_threshold) ==
    IF Len(fs) < 2 THEN [error |-> TooFewSamples(Len(fs)), value |-> <<>>]
    ELSE [error |-> NoError,
          value |-> GroupByLabel(<<>>, fs,
                        fit_predict(distance_matrix(sim),
                                    distance_threshold(similarity_threshold)),
                        1)]

(***************************************************************************)
(* TfidfVectorizer(ngram_range=(1, 3), min_df=1, max_df=0.8,               *)
(* token_pattern=r"(?u)\b\w+\b").fit_transform(titles): only whether it    *)
(* raises is computed here; the similarities it leads to are an input.     *)
(***************************************************************************)
\* A character is a string: the character itself when it is printable ASCII
\* (the backquote is written BACKTICK), a name for a few others, and for
\* every other one the letter U followed by its code point in four or more
\* hexadecimal digits.  The tables below are those of Unicode 14.0.
Ascii ==
    <<" ", "!", "\"", "#", "$", "%", "&", "'", "(", ")", "*", "+", ",", "-",
      ".", "/", "0", "1", "2", "3", "4", "5", "6", "7", "8", "9", ":", ";",
      "<", "=", ">", "?", "@", "A", "B", "C", "D", "E", "F", "G", "H", "I",
      "J", "K", "L", "M", "N", "O", "P", "Q", "R", "S", "T", "U", "V", "W",
      "X", "Y", "Z", "[", "\\", "]", "^", "_", "BACKTICK", "a", "b", "c", "d",
      "e", "f", "g", "h", "i", "j", "k", "l", "m", "n", "o", "p", "q", "r",
      "s", "t", "u", "v", "w", "x", "y", "z", "{", "|", "}", "~">>

\* the characters written as a name, each with its code point
Named ==
    {<<"\t", 9>>, <<"\n", 10>>, <<"VT", 11>>, <<"\f", 12>>, <<"\r", 13>>,
     <<"FS", 28>>, <<"GS", 29>>, <<"RS", 30>>, <<"US", 31>>, <<"NEL", 133>>,
     <<"NBSP", 160>>, <<"BULLET", 8226>>, <<"RULE", 9472>>, <<"CHECK", 9989>>,
     <<"CROSS", 10060>>, <<"SUNRISE", 127749>>, <<"NEWSPAPER", 128478>>}

HexDigits ==
    <<"0", "1", "2", "3", "4", "5", "6", "7", "8", "9", "A", "B", "C", "D",
      "E", "F">>

\* int(digits, 16)
RECURSIVE HexValue(_)
HexValue(digits) ==
    IF digits = "" THEN 0
    ELSE 16 * HexValue(SubSeq(digits, 1, Len(digits) - 1))
            + (CHOOSE d \in 0..15 :
                  HexDigits[d + 1] = SubSeq(digits, Len(digits), Len(digits)))

\* "%04X" % n
RECURSIVE HexText(_, _)
HexText(n, width) ==
    IF n = 0 /\ width <= 0 THEN ""
    ELSE HexText(n \div 16, width - 1) \o HexDigits[(n % 16) + 1]

\* ord(c) and chr(n)
ord(c) ==
    IF \E k \in 1..Len(Ascii) : Ascii[k] = c
    THEN 31 + (CHOOSE k \in 1..Len(Ascii) : Ascii[k] = c)
    ELSE IF \E p \in Named : p[1] = c
    THEN (CHOOSE p \in Named : p[1] = c)[2]
    ELSE HexValue(SubSeq(c, 2, Len(c)))

chr(n) ==
    IF n >= 32 /\ n <= 126 THEN Ascii[n - 31]
    ELSE IF \E p \in Named : p[2] = n
    THEN (CHOOSE p \in Named : p[2] = n)[1]
    ELSE "U" \o HexText(n, 4)

\* the index of the range that holds n in an ascending list of disjoint
\* ranges <<first, last, ...>>, 0 when no range holds it
RECURSIVE Find(_, _, _, _)
Find(n, ranges, lo, hi) ==
    IF lo > hi THEN 0
    ELSE IF n < ranges[(lo + hi) \div 2][1]
    THEN Find(n, ranges, lo, ((lo + hi) \div 2) - 1)
    ELSE IF n > ranges[(lo + hi) \div 2][2]
    THEN Find(n, ranges, ((lo + hi) \div 2) + 1, hi)
    ELSE (lo + hi) \div 2

InRanges(n, ranges) == Find(n, ranges, 1, Len(ranges)) > 0

\* the characters whose lower case is another single character, as runs
\* <<first, last, step, offset>>: every step-th code point from first to
\* last has its lower case offset code points further
LowerRuns ==
    <<<<65, 90, 1, 32>>, <<192, 214, 1, 32>>, <<216, 222, 1, 32>>,
      <<256, 302, 2, 1>>, <<306, 310, 2, 1>>, <<313, 327, 2, 1>>,
      <<330, 374, 2, 1>>, <<376, 376, 1, -121>>, <<377, 381, 2, 1>>,
      <<385, 385, 1, 210>>, <<386, 388, 2, 1>>, <<390, 390, 1, 206>>,
      <<391, 391, 1, 1>>, <<393, 394, 1, 205>>, <<395, 395, 1, 1>>,
      <<398, 398, 1, 79>>, <<399, 399, 1, 202>>, <<400, 400, 1, 203>>,
      <<401, 401, 1, 1>>, <<403, 403, 1, 205>>, <<404, 404, 1, 207>>,
      <<406, 406, 1, 211>>, <<407, 407, 1, 209>>, <<408, 408, 1, 1>>,
      <<412, 412, 1, 211>>, <<413, 413, 1, 213>>, <<415, 415, 1, 214>>,
      <<416, 420, 2, 1>>, <<422, 422, 1, 218>>, <<423, 423, 1, 1>>,
      <<425, 425, 1, 218>>, <<428, 428, 1, 1>>, <<430, 430, 1, 218>>,
      <<431, 431, 1, 1>>, <<433, 434, 1, 217>>, <<435, 437, 2, 1>>,
      <<439, 439, 1, 219>>, <<440, 440, 1, 1>>, <<444, 444, 1, 1>>,
      <<452, 452, 1, 2>>, <<453, 453, 1, 1>>, <<455, 455, 1, 2>>,
      <<456, 456, 1, 1>>, <<458, 458, 1, 2>>, <<459, 475, 2, 1>>,
      <<478, 494, 2, 1>>, <<497, 497, 1, 2>>, <<498, 500, 2, 1>>,
      <<502, 502, 1, -97>>, <<503, 503, 1, -56>>, <<504, 542, 2, 1>>,
      <<544, 544, 1, -130>>, <<546, 562, 2, 1>>, <<570, 570, 1, 10795>>,
      <<571, 571, 1, 1>>, <<573, 573, 1, -163>>, <<574, 574, 1, 10792>>,
      <<577, 577, 1, 1>>, <<579, 579, 1, -195>>, <<580, 580, 1, 69>>,
      <<581, 581, 1, 71>>, <<582, 590, 2, 1>>, <<880, 882, 2, 1>>,
      <<886, 886, 1, 1>>, <<895, 895, 1, 116>>, <<902, 902, 1, 38>>,
      <<904, 906, 1, 37>>, <<908, 908, 1, 64>>, <<910, 911, 1, 63>>,
      <<913, 929, 1, 32>>, <<931, 939, 1, 32>>, <<975, 975, 1, 8>>,
      <<984, 1006, 2, 1>>, <<1012, 1012, 1, -60>>, <<1015, 1015, 1, 1>>,
      <<1017, 1017, 1, -7>>, <<1018, 1018, 1, 1>>, <<1021, 1023, 1, -130>>,
      <<1024, 1039, 1, 80>>, <<1040, 1071, 1, 32>>, <<1120, 1152, 2, 1>>,
      <<1162, 1214, 2, 1>>, <<1216, 1216, 1, 15>>, <<1217, 1229, 2, 1>>,
      <<1232, 1326, 2, 1>>, <<1329, 1366, 1, 48>>, <<4256, 4293, 1, 7264>>,
      <<4295, 4295, 1, 7264>>, <<4301, 4301, 1, 7264>>,
      <<5024, 5103, 1, 38864>>, <<5104, 5109, 1, 8>>,
      <<7312, 7354, 1, -3008>>, <<7357, 7359, 1, -3008>>,
      <<7680, 7828, 2, 1>>, <<7838, 7838, 1, -7615>>, <<7840, 7934, 2, 1>>,
      <<7944, 7951, 1, -8>>, <<7960, 7965, 1, -8>>, <<7976, 7983, 1, -8>>,
      <<7992, 7999, 1, -8>>, <<8008, 8013, 1, -8>>, <<8025, 8031, 2, -8>>,
      <<8040, 8047, 1, -8>>, <<8072, 8079, 1, -8>>, <<8088, 8095, 1, -8>>,
      <<8104, 8111, 1, -8>>, <<8120, 8121, 1, -8>>, <<8122, 8123, 1, -74>>,
      <<8124, 8124, 1, -9>>, <<8136, 8139, 1, -86>>, <<8140, 8140, 1, -9>>,
      <<8152, 8153, 1, -8>>, <<8154, 8155, 1, -100>>, <<8168, 8169, 1, -8>>,
      <<8170, 8171, 1, -112>>, <<8172, 8172, 1, -7>>, <<8184, 8185, 1, -128>>,
      <<8186, 8187, 1, -126>>, <<8188, 8188, 1, -9>>,
      <<8486, 8486, 1, -7517>>, <<8490, 8490, 1, -8383>>,
      <<8491, 8491, 1, -8262>>, <<8498, 8498, 1, 28>>, <<8544, 8559, 1, 16>>,
      <<8579, 8579, 1, 1>>, <<9398, 9423, 1, 26>>, <<11264, 11311, 1, 48>>,
      <<11360, 11360, 1, 1>>, <<11362, 11362, 1, -10743>>,
      <<11363, 11363, 1, -3814>>, <<11364, 11364, 1, -10727>>,
      <<11367, 11371, 2, 1>>, <<11373, 11373, 1, -10780>>,
      <<11374, 11374, 1, -10749>>, <<11375, 11375, 1, -10783>>,
      <<11376, 11376, 1, -10782>>, <<11378, 11378, 1, 1>>,
      <<11381, 11381, 1, 1>>, <<11390, 11391, 1, -10815>>,
      <<11392, 11490, 2, 1>>, <<11499, 11501, 2, 1>>, <<11506, 11506, 1, 1>>,
      <<42560, 42604, 2, 1>>, <<42624, 42650, 2, 1>>, <<42786, 42798, 2, 1>>,
      <<42802, 42862, 2, 1>>, <<42873, 42875, 2, 1>>,
      <<42877, 42877, 1, -35332>>, <<42878, 42886, 2, 1>>,
      <<42891, 42891, 1, 1>>, <<42893, 42893, 1, -42280>>,
      <<42896, 42898, 2, 1>>, <<42902, 42920, 2, 1>>,
      <<42922, 42922, 1, -42308>>, <<42923, 42923, 1, -42319>>,
      <<42924, 42924, 1, -42315>>, <<42925, 42925, 1, -42305>>,
      <<42926, 42926, 1, -42308>>, <<42928, 42928, 1, -42258>>,
      <<42929, 42929, 1, -42282>>, <<42930, 42930, 1, -42261>>,
      <<42931, 42931, 1, 928>>, <<42932, 42946, 2, 1>>,
      <<42948, 42948, 1, -48>>, <<42949, 42949, 1, -42307>>,
      <<42950, 42950, 1, -35384>>, <<42951, 42953, 2, 1>>,
      <<42960, 42960, 1, 1>>, <<42966, 42968, 2, 1>>, <<42997, 42997, 1, 1>>,
      <<65313, 65338, 1, 32>>, <<66560, 66599, 1, 40>>,
      <<66736, 66771, 1, 40>>, <<66928, 66938, 1, 39>>,
      <<66940, 66954, 1, 39>>, <<66956, 66962, 1, 39>>,
      <<66964, 66965, 1, 39>>, <<68736, 68786, 1, 64>>,
      <<71840, 71871, 1, 32>>, <<93760, 93791, 1, 32>>,
      <<125184, 125217, 1, 34>>>>

\* the run that gives the lower case of code point n, 0 when none does
RunOf(n) ==
    IF Find(n, LowerRuns, 1, Len(LowerRuns)) > 0
       /\ (n - LowerRuns[Find(n, LowerRuns, 1, Len(LowerRuns))][1])
              % LowerRuns[Find(n, LowerRuns, 1, Len(LowerRuns))][3] = 0
    THEN Find(n, LowerRuns, 1, Len(LowerRuns))
    ELSE 0

\* str.lower() of one character: a text, of two characters for the capital I
\* with a dot above
Lower(c) ==
    IF ord(c) = 304 THEN <<"i", chr(775)>>
    ELSE IF RunOf(ord(c)) > 0
    THEN <<chr(ord(c) + LowerRuns[RunOf(ord(c))][4])>>
    ELSE <<c>>

\* the code points lower() skips when it looks around a capital sigma
CaseIgnorable ==
    <<<<39, 39>>, <<46, 46>>, <<58, 58>>, <<94, 94>>, <<96, 96>>,
      <<168, 168>>, <<173, 173>>, <<175, 175>>, <<180, 180>>, <<183, 184>>,
      <<688, 879>>, <<884, 885>>, <<890, 890>>, <<900, 901>>, <<903, 903>>,
      <<1155, 1161>>, <<1369, 1369>>, <<1375, 1375>>, <<1425, 1469>>,
      <<1471, 1471>>, <<1473, 1474>>, <<1476, 1477>>, <<1479, 1479>>,
      <<1524, 1524>>, <<1536, 1541>>, <<1552, 1562>>, <<1564, 1564>>,
      <<1600, 1600>>, <<1611, 1631>>, <<1648, 1648>>, <<1750, 1757>>,
      <<1759, 1768>>, <<1770, 1773>>, <<1807, 1807>>, <<1809, 1809>>,
      <<1840, 1866>>, <<1958, 1968>>, <<2027, 2037>>, <<2042, 2042>>,
      <<2045, 2045>>, <<2070, 2093>>, <<2137, 2139>>, <<2184, 2184>>,
      <<2192, 2193>>, <<2200, 2207>>, <<2249, 2306>>, <<2362, 2362>>,
      <<2364, 2364>>, <<2369, 2376>>, <<2381, 2381>>, <<2385, 2391>>,
      <<2402, 2403>>, <<2417, 2417>>, <<2433, 2433>>, <<2492, 2492>>,
      <<2497, 2500>>, <<2509, 2509>>, <<2530, 2531>>, <<2558, 2558>>,
      <<2561, 2562>>, <<2620, 2620>>, <<2625, 2626>>, <<2631, 2632>>,
      <<2635, 2637>>, <<2641, 2641>>, <<2672, 2673>>, <<2677, 2677>>,
      <<2689, 2690>>, <<2748, 2748>>, <<2753, 2757>>, <<2759, 2760>>,
      <<2765, 2765>>, <<2786, 2787>>, <<2810, 2815>>, <<2817, 2817>>,
      <<2876, 2876>>, <<2879, 2879>>, <<2881, 2884>>, <<2893, 2893>>,
      <<2901, 2902>>, <<2914, 2915>>, <<2946, 2946>>, <<3008, 3008>>,
      <<3021, 3021>>, <<3072, 3072>>, <<3076, 3076>>, <<3132, 3132>>,
      <<3134, 3136>>, <<3142, 3144>>, <<3146, 3149>>, <<3157, 3158>>,
      <<3170, 3171>>, <<3201, 3201>>, <<3260, 3260>>, <<3263, 3263>>,
      <<3270, 3270>>, <<3276, 3277>>, <<3298, 3299>>, <<3328, 3329>>,
      <<3387, 3388>>, <<3393, 3396>>, <<3405, 3405>>, <<3426, 3427>>,
      <<3457, 3457>>, <<3530, 3530>>, <<3538, 3540>>, <<3542, 3542>>,
      <<3633, 3633>>, <<3636, 3642>>, <<3654, 3662>>, <<3761, 3761>>,
      <<3764, 3772>>, <<3782, 3782>>, <<3784, 3789>>, <<3864, 3865>>,
      <<3893, 3893>>, <<3895, 3895>>, <<3897, 3897>>, <<3953, 3966>>,
      <<3968, 3972>>, <<3974, 3975>>, <<3981, 3991>>, <<3993, 4028>>,
      <<4038, 4038>>, <<4141, 4144>>, <<4146, 4151>>, <<4153, 4154>>,
      <<4157, 4158>>, <<4184, 4185>>, <<4190, 4192>>, <<4209, 4212>>,
      <<4226, 4226>>, <<4229, 4230>>, <<4237, 4237>>, <<4253, 4253>>,
      <<4348, 4348>>, <<4957, 4959>>, <<5906, 5908>>, <<5938, 5939>>,
      <<5970, 5971>>, <<6002, 6003>>, <<6068, 6069>>, <<6071, 6077>>,
      <<6086, 6086>>, <<6089, 6099>>, <<6103, 6103>>, <<6109, 6109>>,
      <<6155, 6159>>, <<6211, 6211>>, <<6277, 6278>>, <<6313, 6313>>,
      <<6432, 6434>>, <<6439, 6440>>, <<6450, 6450>>, <<6457, 6459>>,
      <<6679, 6680>>, <<6683, 6683>>, <<6742, 6742>>, <<6744, 6750>>,
      <<6752, 6752>>, <<6754, 6754>>, <<6757, 6764>>, <<6771, 6780>>,
      <<6783, 6783>>, <<6823, 6823>>, <<6832, 6862>>, <<6912, 6915>>,
      <<6964, 6964>>, <<6966, 6970>>, <<6972, 6972>>, <<6978, 6978>>,
      <<7019, 7027>>, <<7040, 7041>>, <<7074, 7077>>, <<7080, 7081>>,
      <<7083, 7085>>, <<7142, 7142>>, <<7144, 7145>>, <<7149, 7149>>,
      <<7151, 7153>>, <<7212, 7219>>, <<7222, 7223>>, <<7288, 7293>>,
      <<7376, 7378>>, <<7380, 7392>>, <<7394, 7400>>, <<7405, 7405>>,
      <<7412, 7412>>, <<7416, 7417>>, <<7468, 7530>>, <<7544, 7544>>,
      <<7579, 7679>>, <<8125, 8125>>, <<8127, 8129>>, <<8141, 8143>>,
      <<8157, 8159>>, <<8173, 8175>>, <<8189, 8190>>, <<8203, 8207>>,
      <<8216, 8217>>, <<8228, 8228>>, <<8231, 8231>>, <<8234, 8238>>,
      <<8288, 8292>>, <<8294, 8303>>, <<8305, 8305>>, <<8319, 8319>>,
      <<8336, 8348>>, <<8400, 8432>>, <<11388, 11389>>, <<11503, 11505>>,
      <<11631, 11631>>, <<11647, 11647>>, <<11744, 11775>>, <<11823, 11823>>,
      <<12293, 12293>>, <<12330, 12333>>, <<12337, 12341>>, <<12347, 12347>>,
      <<12441, 12446>>, <<12540, 12542>>, <<40981, 40981>>, <<42232, 42237>>,
      <<42508, 42508>>, <<42607, 42610>>, <<42612, 42621>>, <<42623, 42623>>,
      <<42652, 42655>>, <<42736, 42737>>, <<42752, 42785>>, <<42864, 42864>>,
      <<42888, 42890>>, <<42994, 42996>>, <<43000, 43001>>, <<43010, 43010>>,
      <<43014, 43014>>, <<43019, 43019>>, <<43045, 43046>>, <<43052, 43052>>,
      <<43204, 43205>>, <<43232, 43249>>, <<43263, 43263>>, <<43302, 43309>>,
      <<43335, 43345>>, <<43392, 43394>>, <<43443, 43443>>, <<43446, 43449>>,
      <<43452, 43453>>, <<43471, 43471>>, <<43493, 43494>>, <<43561, 43566>>,
      <<43569, 43570>>, <<43573, 43574>>, <<43587, 43587>>, <<43596, 43596>>,
      <<43632, 43632>>, <<43644, 43644>>, <<43696, 43696>>, <<43698, 43700>>,
      <<43703, 43704>>, <<43710, 43711>>, <<43713, 43713>>, <<43741, 43741>>,
      <<43756, 43757>>, <<43763, 43764>>, <<43766, 43766>>, <<43867, 43871>>,
      <<43881, 43883>>, <<44005, 44005>>, <<44008, 44008>>, <<44013, 44013>>,
      <<64286, 64286>>, <<64434, 64450>>, <<65024, 65039>>, <<65043, 65043>>,
      <<65056, 65071>>, <<65106, 65106>>, <<65109, 65109>>, <<65279, 65279>>,
      <<65287, 65287>>, <<65294, 65294>>, <<65306, 65306>>, <<65342, 65342>>,
      <<65344, 65344>>, <<65392, 65392>>, <<65438, 65439>>, <<65507, 65507>>,
      <<65529, 65531>>, <<66045, 66045>>, <<66272, 66272>>, <<66422, 66426>>,
      <<67456, 67461>>, <<67463, 67504>>, <<67506, 67514>>, <<68097, 68099>>,
      <<68101, 68102>>, <<68108, 68111>>, <<68152, 68154>>, <<68159, 68159>>,
      <<68325, 68326>>, <<68900, 68903>>, <<69291, 69292>>, <<69446, 69456>>,
      <<69506, 69509>>, <<69633, 69633>>, <<69688, 69702>>, <<69744, 69744>>,
      <<69747, 69748>>, <<69759, 69761>>, <<69811, 69814>>, <<69817, 69818>>,
      <<69821, 69821>>, <<69826, 69826>>, <<69837, 69837>>, <<69888, 69890>>,
      <<69927, 69931>>, <<69933, 69940>>, <<70003, 70003>>, <<70016, 70017>>,
      <<70070, 70078>>, <<70089, 70092>>, <<70095, 70095>>, <<70191, 70193>>,
      <<70196, 70196>>, <<70198, 70199>>, <<70206, 70206>>, <<70367, 70367>>,
      <<70371, 70378>>, <<70400, 70401>>, <<70459, 70460>>, <<70464, 70464>>,
      <<70502, 70508>>, <<70512, 70516>>, <<70712, 70719>>, <<70722, 70724>>,
      <<70726, 70726>>, <<70750, 70750>>, <<70835, 70840>>, <<70842, 70842>>,
      <<70847, 70848>>, <<70850, 70851>>, <<71090, 71093>>, <<71100, 71101>>,
      <<71103, 71104>>, <<71132, 71133>>, <<71219, 71226>>, <<71229, 71229>>,
      <<71231, 71232>>, <<71339, 71339>>, <<71341, 71341>>, <<71344, 71349>>,
      <<71351, 71351>>, <<71453, 71455>>, <<71458, 71461>>, <<71463, 71467>>,
      <<71727, 71735>>, <<71737, 71738>>, <<71995, 71996>>, <<71998, 71998>>,
      <<72003, 72003>>, <<72148, 72151>>, <<72154, 72155>>, <<72160, 72160>>,
      <<72193, 72202>>, <<72243, 72248>>, <<72251, 72254>>, <<72263, 72263>>,
      <<72273, 72278>>, <<72281, 72283>>, <<72330, 72342>>, <<72344, 72345>>,
      <<72752, 72758>>, <<72760, 72765>>, <<72767, 72767>>, <<72850, 72871>>,
      <<72874, 72880>>, <<72882, 72883>>, <<72885, 72886>>, <<73009, 73014>>,
      <<73018, 73018>>, <<73020, 73021>>, <<73023, 73029>>, <<73031, 73031>>,
      <<73104, 73105>>, <<73109, 73109>>, <<73111, 73111>>, <<73459, 73460>>,
      <<78896, 78904>>, <<92912, 92916>>, <<92976, 92982>>, <<92992, 92995>>,
      <<94031, 94031>>, <<94095, 94111>>, <<94176, 94177>>, <<94179, 94180>>,
      <<110576, 110579>>, <<110581, 110587>>, <<110589, 110590>>,
      <<113821, 113822>>, <<113824, 113827>>, <<118528, 118573>>,
      <<118576, 118598>>, <<119143, 119145>>, <<119155, 119170>>,
      <<119173, 119179>>, <<119210, 119213>>, <<119362, 119364>>,
      <<121344, 121398>>, <<121403, 121452>>, <<121461, 121461>>,
      <<121476, 121476>>, <<121499, 121503>>, <<121505, 121519>>,
      <<122880, 122886>>, <<122888, 122904>>, <<122907, 122913>>,
      <<122915, 122916>>, <<122918, 122922>>, <<123184, 123197>>,
      <<123566, 123566>>, <<123628, 123631>>, <<125136, 125142>>,
      <<125252, 125259>>, <<127995, 127999>>, <<917505, 917505>>,
      <<917536, 917631>>, <<917760, 917999>>>>

\* the code points of the cased characters
Cased ==
    <<<<65, 90>>, <<97, 122>>, <<170, 170>>, <<181, 181>>, <<186, 186>>,
      <<192, 214>>, <<216, 246>>, <<248, 442>>, <<444, 447>>, <<452, 659>>,
      <<661, 696>>, <<704, 705>>, <<736, 740>>, <<837, 837>>, <<880, 883>>,
      <<886, 887>>, <<890, 893>>, <<895, 895>>, <<902, 902>>, <<904, 906>>,
      <<908, 908>>, <<910, 929>>, <<931, 1013>>, <<1015, 1153>>,
      <<1162, 1327>>, <<1329, 1366>>, <<1376, 1416>>, <<4256, 4293>>,
      <<4295, 4295>>, <<4301, 4301>>, <<4304, 4346>>, <<4349, 4351>>,
      <<5024, 5109>>, <<5112, 5117>>, <<7296, 7304>>, <<7312, 7354>>,
      <<7357, 7359>>, <<7424, 7615>>, <<7680, 7957>>, <<7960, 7965>>,
      <<7968, 8005>>, <<8008, 8013>>, <<8016, 8023>>, <<8025, 8025>>,
      <<8027, 8027>>, <<8029, 8029>>, <<8031, 8061>>, <<8064, 8116>>,
      <<8118, 8124>>, <<8126, 8126>>, <<8130, 8132>>, <<8134, 8140>>,
      <<8144, 8147>>, <<8150, 8155>>, <<8160, 8172>>, <<8178, 8180>>,
      <<8182, 8188>>, <<8305, 8305>>, <<8319, 8319>>, <<8336, 8348>>,
      <<8450, 8450>>, <<8455, 8455>>, <<8458, 8467>>, <<8469, 8469>>,
      <<8473, 8477>>, <<8484, 8484>>, <<8486, 8486>>, <<8488, 8488>>,
      <<8490, 8493>>, <<8495, 8500>>, <<8505, 8505>>, <<8508, 8511>>,
      <<8517, 8521>>, <<8526, 8526>>, <<8544, 8575>>, <<8579, 8580>>,
      <<9398, 9449>>, <<11264, 11492>>, <<11499, 11502>>, <<11506, 11507>>,
      <<11520, 11557>>, <<11559, 11559>>, <<11565, 11565>>, <<42560, 42605>>,
      <<42624, 42653>>, <<42786, 42887>>, <<42891, 42894>>, <<42896, 42954>>,
      <<42960, 42961>>, <<42963, 42963>>, <<42965, 42969>>, <<42997, 42998>>,
      <<43000, 43002>>, <<43824, 43866>>, <<43868, 43880>>, <<43888, 43967>>,
      <<64256, 64262>>, <<64275, 64279>>, <<65313, 65338>>, <<65345, 65370>>,
      <<66560, 66639>>, <<66736, 66771>>, <<66776, 66811>>, <<66928, 66938>>,
      <<66940, 66954>>, <<66956, 66962>>, <<66964, 66965>>, <<66967, 66977>>,
      <<66979, 66993>>, <<66995, 67001>>, <<67003, 67004>>, <<67456, 67456>>,
      <<67459, 67461>>, <<67463, 67504>>, <<67506, 67514>>, <<68736, 68786>>,
      <<68800, 68850>>, <<71840, 71903>>, <<93760, 93823>>,
      <<119808, 119892>>, <<119894, 119964>>, <<119966, 119967>>,
      <<119970, 119970>>, <<119973, 119974>>, <<119977, 119980>>,
      <<119982, 119993>>, <<119995, 119995>>, <<119997, 120003>>,
      <<120005, 120069>>, <<120071, 120074>>, <<120077, 120084>>,
      <<120086, 120092>>, <<120094, 120121>>, <<120123, 120126>>,
      <<120128, 120132>>, <<120134, 120134>>, <<120138, 120144>>,
      <<120146, 120485>>, <<120488, 120512>>, <<120514, 120538>>,
      <<120540, 120570>>, <<120572, 120596>>, <<120598, 120628>>,
      <<120630, 120654>>, <<120656, 120686>>, <<120688, 120712>>,
      <<120714, 120744>>, <<120746, 120770>>, <<120772, 120779>>,
      <<122624, 122633>>, <<122635, 122654>>, <<125184, 125251>>,
      <<127280, 127305>>, <<127312, 127337>>, <<127344, 127369>>>>

\* the nearest position before (dir = -1) or after (dir = 1) position i that
\* holds no case-ignorable character; 0 or Len(text) + 1 when there is none
RECURSIVE SkipIgnorable(_, _, _)
SkipIgnorable(text, i, dir) ==
    IF /\ i + dir >= 1 /\ i + dir <= Len(text)
       /\ InRanges(ord(text[i + dir]), CaseIgnorable)
    THEN SkipIgnorable(text, i + dir, dir)
    ELSE i + dir

\* the capital sigma at position i ends a word: a cased character before it,
\* none after it
FinalSigma(text, i) ==
    /\ SkipIgnorable(text, i, -1) >= 1
    /\ InRanges(ord(text[SkipIgnorable(text, i, -1)]), Cased)
    /\ \/ SkipIgnorable(text, i, 1) > Len(text)
       \/ ~InRanges(ord(text[SkipIgnorable(text, i, 1)]), Cased)

\* what text.lower() puts at the place of text[i]
LowerAt(text, i) ==
    IF ord(text[i]) = 931 /\ FinalSigma(text, i) THEN <<chr(962)>>
    ELSE Lower(text[i])

\* the code points \w matches: the underscore and the letters and digits of
\* every script
WordChars ==
    <<<<48, 57>>, <<65, 90>>, <<95, 95>>, <<97, 122>>, <<170, 170>>,
      <<178, 179>>, <<181, 181>>, <<185, 186>>, <<188, 190>>, <<192, 214>>,
      <<216, 246>>, <<248, 705>>, <<710, 721>>, <<736, 740>>, <<748, 748>>,
      <<750, 750>>, <<880, 884>>, <<886, 887>>, <<890, 893>>, <<895, 895>>,
      <<902, 902>>, <<904, 906>>, <<908, 908>>, <<910, 929>>, <<931, 1013>>,
      <<1015, 1153>>, <<1162, 1327>>, <<1329, 1366>>, <<1369, 1369>>,
      <<1376, 1416>>, <<1488, 1514>>, <<1519, 1522>>, <<1568, 1610>>,
      <<1632, 1641>>, <<1646, 1647>>, <<1649, 1747>>, <<1749, 1749>>,
      <<1765, 1766>>, <<1774, 1788>>, <<1791, 1791>>, <<1808, 1808>>,
      <<1810, 1839>>, <<1869, 1957>>, <<1969, 1969>>, <<1984, 2026>>,
      <<2036, 2037>>, <<2042, 2042>>, <<2048, 2069>>, <<2074, 2074>>,
      <<2084, 2084>>, <<2088, 2088>>, <<2112, 2136>>, <<2144, 2154>>,
      <<2160, 2183>>, <<2185, 2190>>, <<2208, 2249>>, <<2308, 2361>>,
      <<2365, 2365>>, <<2384, 2384>>, <<2392, 2401>>, <<2406, 2415>>,
      <<2417, 2432>>, <<2437, 2444>>, <<2447, 2448>>, <<2451, 2472>>,
      <<2474, 2480>>, <<2482, 2482>>, <<2486, 2489>>, <<2493, 2493>>,
      <<2510, 2510>>, <<2524, 2525>>, <<2527, 2529>>, <<2534, 2545>>,
      <<2548, 2553>>, <<2556, 2556>>, <<2565, 2570>>, <<2575, 2576>>,
      <<2579, 2600>>, <<2602, 2608>>, <<2610, 2611>>, <<2613, 2614>>,
      <<2616, 2617>>, <<2649, 2652>>, <<2654, 2654>>, <<2662, 2671>>,
      <<2674, 2676>>, <<2693, 2701>>, <<2703, 2705>>, <<2707, 2728>>,
      <<2730, 2736>>, <<2738, 2739>>, <<2741, 2745>>, <<2749, 2749>>,
      <<2768, 2768>>, <<2784, 2785>>, <<2790, 2799>>, <<2809, 2809>>,
      <<2821, 2828>>, <<2831, 2832>>, <<2835, 2856>>, <<2858, 2864>>,
      <<2866, 2867>>, <<2869, 2873>>, <<2877, 2877>>, <<2908, 2909>>,
      <<2911, 2913>>, <<2918, 2927>>, <<2929, 2935>>, <<2947, 2947>>,
      <<2949, 2954>>, <<2958, 2960>>, <<2962, 2965>>, <<2969, 2970>>,
      <<2972, 2972>>, <<2974, 2975>>, <<2979, 2980>>, <<2984, 2986>>,
      <<2990, 3001>>, <<3024, 3024>>, <<3046, 3058>>, <<3077, 3084>>,
      <<3086, 3088>>, <<3090, 3112>>, <<3114, 3129>>, <<3133, 3133>>,
      <<3160, 3162>>, <<3165, 3165>>, <<3168, 3169>>, <<3174, 3183>>,
      <<3192, 3198>>, <<3200, 3200>>, <<3205, 3212>>, <<3214, 3216>>,
      <<3218, 3240>>, <<3242, 3251>>, <<3253, 3257>>, <<3261, 3261>>,
      <<3293, 3294>>, <<3296, 3297>>, <<3302, 3311>>, <<3313, 3314>>,
      <<3332, 3340>>, <<3342, 3344>>, <<3346, 3386>>, <<3389, 3389>>,
      <<3406, 3406>>, <<3412, 3414>>, <<3416, 3425>>, <<3430, 3448>>,
      <<3450, 3455>>, <<3461, 3478>>, <<3482, 3505>>, <<3507, 3515>>,
      <<3517, 3517>>, <<3520, 3526>>, <<3558, 3567>>, <<3585, 3632>>,
      <<3634, 3635>>, <<3648, 3654>>, <<3664, 3673>>, <<3713, 3714>>,
      <<3716, 3716>>, <<3718, 3722>>, <<3724, 3747>>, <<3749, 3749>>,
      <<3751, 3760>>, <<3762, 3763>>, <<3773, 3773>>, <<3776, 3780>>,
      <<3782, 3782>>, <<3792, 3801>>, <<3804, 3807>>, <<3840, 3840>>,
      <<3872, 3891>>, <<3904, 3911>>, <<3913, 3948>>, <<3976, 3980>>,
      <<4096, 4138>>, <<4159, 4169>>, <<4176, 4181>>, <<4186, 4189>>,
      <<4193, 4193>>, <<4197, 4198>>, <<4206, 4208>>, <<4213, 4225>>,
      <<4238, 4238>>, <<4240, 4249>>, <<4256, 4293>>, <<4295, 4295>>,
      <<4301, 4301>>, <<4304, 4346>>, <<4348, 4680>>, <<4682, 4685>>,
      <<4688, 4694>>, <<4696, 4696>>, <<4698, 4701>>, <<4704, 4744>>,
      <<4746, 4749>>, <<4752, 4784>>, <<4786, 4789>>, <<4792, 4798>>,
      <<4800, 4800>>, <<4802, 4805>>, <<4808, 4822>>, <<4824, 4880>>,
      <<4882, 4885>>, <<4888, 4954>>, <<4969, 4988>>, <<4992, 5007>>,
      <<5024, 5109>>, <<5112, 5117>>, <<5121, 5740>>, <<5743, 5759>>,
      <<5761, 5786>>, <<5792, 5866>>, <<5870, 5880>>, <<5888, 5905>>,
      <<5919, 5937>>, <<5952, 5969>>, <<5984, 5996>>, <<5998, 6000>>,
      <<6016, 6067>>, <<6103, 6103>>, <<6108, 6108>>, <<6112, 6121>>,
      <<6128, 6137>>, <<6160, 6169>>, <<6176, 6264>>, <<6272, 6276>>,
      <<6279, 6312>>, <<6314, 6314>>, <<6320, 6389>>, <<6400, 6430>>,
      <<6470, 6509>>, <<6512, 6516>>, <<6528, 6571>>, <<6576, 6601>>,
      <<6608, 6618>>, <<6656, 6678>>, <<6688, 6740>>, <<6784, 6793>>,
      <<6800, 6809>>, <<6823, 6823>>, <<6917, 6963>>, <<6981, 6988>>,
      <<6992, 7001>>, <<7043, 7072>>, <<7086, 7141>>, <<7168, 7203>>,
      <<7232, 7241>>, <<7245, 7293>>, <<7296, 7304>>, <<7312, 7354>>,
      <<7357, 7359>>, <<7401, 7404>>, <<7406, 7411>>, <<7413, 7414>>,
      <<7418, 7418>>, <<7424, 7615>>, <<7680, 7957>>, <<7960, 7965>>,
      <<7968, 8005>>, <<8008, 8013>>, <<8016, 8023>>, <<8025, 8025>>,
      <<8027, 8027>>, <<8029, 8029>>, <<8031, 8061>>, <<8064, 8116>>,
      <<8118, 8124>>, <<8126, 8126>>, <<8130, 8132>>, <<8134, 8140>>,
      <<8144, 8147>>, <<8150, 8155>>, <<8160, 8172>>, <<8178, 8180>>,
      <<8182, 8188>>, <<8304, 8305>>, <<8308, 8313>>, <<8319, 8329>>,
      <<8336, 8348>>, <<8450, 8450>>, <<8455, 8455>>, <<8458, 8467>>,
      <<8469, 8469>>, <<8473, 8477>>, <<8484, 8484>>, <<8486, 8486>>,
      <<8488, 8488>>, <<8490, 8493>>, <<8495, 8505>>, <<8508, 8511>>,
      <<8517, 8521>>, <<8526, 8526>>, <<8528, 8585>>, <<9312, 9371>>,
      <<9450, 9471>>, <<10102, 10131>>, <<11264, 11492>>, <<11499, 11502>>,
      <<11506, 11507>>, <<11517, 11517>>, <<11520, 11557>>, <<11559, 11559>>,
      <<11565, 11565>>, <<11568, 11623>>, <<11631, 11631>>, <<11648, 11670>>,
      <<11680, 11686>>, <<11688, 11694>>, <<11696, 11702>>, <<11704, 11710>>,
      <<11712, 11718>>, <<11720, 11726>>, <<11728, 11734>>, <<11736, 11742>>,
      <<11823, 11823>>, <<12293, 12295>>, <<12321, 12329>>, <<12337, 12341>>,
      <<12344, 12348>>, <<12353, 12438>>, <<12445, 12447>>, <<12449, 12538>>,
      <<12540, 12543>>, <<12549, 12591>>, <<12593, 12686>>, <<12690, 12693>>,
      <<12704, 12735>>, <<12784, 12799>>, <<12832, 12841>>, <<12872, 12879>>,
      <<12881, 12895>>, <<12928, 12937>>, <<12977, 12991>>, <<13312, 19903>>,
      <<19968, 42124>>, <<42192, 42237>>, <<42240, 42508>>, <<42512, 42539>>,
      <<42560, 42606>>, <<42623, 42653>>, <<42656, 42735>>, <<42775, 42783>>,
      <<42786, 42888>>, <<42891, 42954>>, <<42960, 42961>>, <<42963, 42963>>,
      <<42965, 42969>>, <<42994, 43009>>, <<43011, 43013>>, <<43015, 43018>>,
      <<43020, 43042>>, <<43056, 43061>>, <<43072, 43123>>, <<43138, 43187>>,
      <<43216, 43225>>, <<43250, 43255>>, <<43259, 43259>>, <<43261, 43262>>,
      <<43264, 43301>>, <<43312, 43334>>, <<43360, 43388>>, <<43396, 43442>>,
      <<43471, 43481>>, <<43488, 43492>>, <<43494, 43518>>, <<43520, 43560>>,
      <<43584, 43586>>, <<43588, 43595>>, <<43600, 43609>>, <<43616, 43638>>,
      <<43642, 43642>>, <<43646, 43695>>, <<43697, 43697>>, <<43701, 43702>>,
      <<43705, 43709>>, <<43712, 43712>>, <<43714, 43714>>, <<43739, 43741>>,
      <<43744, 43754>>, <<43762, 43764>>, <<43777, 43782>>, <<43785, 43790>>,
      <<43793, 43798>>, <<43808, 43814>>, <<43816, 43822>>, <<43824, 43866>>,
      <<43868, 43881>>, <<43888, 44002>>, <<44016, 44025>>, <<44032, 55203>>,
      <<55216, 55238>>, <<55243, 55291>>, <<63744, 64109>>, <<64112, 64217>>,
      <<64256, 64262>>, <<64275, 64279>>, <<64285, 64285>>, <<64287, 64296>>,
      <<64298, 64310>>, <<64312, 64316>>, <<64318, 64318>>, <<64320, 64321>>,
      <<64323, 64324>>, <<64326, 64433>>, <<64467, 64829>>, <<64848, 64911>>,
      <<64914, 64967>>, <<65008, 65019>>, <<65136, 65140>>, <<65142, 65276>>,
      <<65296, 65305>>, <<65313, 65338>>, <<65345, 65370>>, <<65382, 65470>>,
      <<65474, 65479>>, <<65482, 65487>>, <<65490, 65495>>, <<65498, 65500>>,
      <<65536, 65547>>, <<65549, 65574>>, <<65576, 65594>>, <<65596, 65597>>,
      <<65599, 65613>>, <<65616, 65629>>, <<65664, 65786>>, <<65799, 65843>>,
      <<65856, 65912>>, <<65930, 65931>>, <<66176, 66204>>, <<66208, 66256>>,
      <<66273, 66299>>, <<66304, 66339>>, <<66349, 66378>>, <<66384, 66421>>,
      <<66432, 66461>>, <<66464, 66499>>, <<66504, 66511>>, <<66513, 66517>>,
      <<66560, 66717>>, <<66720, 66729>>, <<66736, 66771>>, <<66776, 66811>>,
      <<66816, 66855>>, <<66864, 66915>>, <<66928, 66938>>, <<66940, 66954>>,
      <<66956, 66962>>, <<66964, 66965>>, <<66967, 66977>>, <<66979, 66993>>,
      <<66995, 67001>>, <<67003, 67004>>, <<67072, 67382>>, <<67392, 67413>>,
      <<67424, 67431>>, <<67456, 67461>>, <<67463, 67504>>, <<67506, 67514>>,
      <<67584, 67589>>, <<67592, 67592>>, <<67594, 67637>>, <<67639, 67640>>,
      <<67644, 67644>>, <<67647, 67669>>, <<67672, 67702>>, <<67705, 67742>>,
      <<67751, 67759>>, <<67808, 67826>>, <<67828, 67829>>, <<67835, 67867>>,
      <<67872, 67897>>, <<67968, 68023>>, <<68028, 68047>>, <<68050, 68096>>,
      <<68112, 68115>>, <<68117, 68119>>, <<68121, 68149>>, <<68160, 68168>>,
      <<68192, 68222>>, <<68224, 68255>>, <<68288, 68295>>, <<68297, 68324>>,
      <<68331, 68335>>, <<68352, 68405>>, <<68416, 68437>>, <<68440, 68466>>,
      <<68472, 68497>>, <<68521, 68527>>, <<68608, 68680>>, <<68736, 68786>>,
      <<68800, 68850>>, <<68858, 68899>>, <<68912, 68921>>, <<69216, 69246>>,
      <<69248, 69289>>, <<69296, 69297>>, <<69376, 69415>>, <<69424, 69445>>,
      <<69457, 69460>>, <<69488, 69505>>, <<69552, 69579>>, <<69600, 69622>>,
      <<69635, 69687>>, <<69714, 69743>>, <<69745, 69746>>, <<69749, 69749>>,
      <<69763, 69807>>, <<69840, 69864>>, <<69872, 69881>>, <<69891, 69926>>,
      <<69942, 69951>>, <<69956, 69956>>, <<69959, 69959>>, <<69968, 70002>>,
      <<70006, 70006>>, <<70019, 70066>>, <<70081, 70084>>, <<70096, 70106>>,
      <<70108, 70108>>, <<70113, 70132>>, <<70144, 70161>>, <<70163, 70187>>,
      <<70272, 70278>>, <<70280, 70280>>, <<70282, 70285>>, <<70287, 70301>>,
      <<70303, 70312>>, <<70320, 70366>>, <<70384, 70393>>, <<70405, 70412>>,
      <<70415, 70416>>, <<70419, 70440>>, <<70442, 70448>>, <<70450, 70451>>,
      <<70453, 70457>>, <<70461, 70461>>, <<70480, 70480>>, <<70493, 70497>>,
      <<70656, 70708>>, <<70727, 70730>>, <<70736, 70745>>, <<70751, 70753>>,
      <<70784, 70831>>, <<70852, 70853>>, <<70855, 70855>>, <<70864, 70873>>,
      <<71040, 71086>>, <<71128, 71131>>, <<71168, 71215>>, <<71236, 71236>>,
      <<71248, 71257>>, <<71296, 71338>>, <<71352, 71352>>, <<71360, 71369>>,
      <<71424, 71450>>, <<71472, 71483>>, <<71488, 71494>>, <<71680, 71723>>,
      <<71840, 71922>>, <<71935, 71942>>, <<71945, 71945>>, <<71948, 71955>>,
      <<71957, 71958>>, <<71960, 71983>>, <<71999, 71999>>, <<72001, 72001>>,
      <<72016, 72025>>, <<72096, 72103>>, <<72106, 72144>>, <<72161, 72161>>,
      <<72163, 72163>>, <<72192, 72192>>, <<72203, 72242>>, <<72250, 72250>>,
      <<72272, 72272>>, <<72284, 72329>>, <<72349, 72349>>, <<72368, 72440>>,
      <<72704, 72712>>, <<72714, 72750>>, <<72768, 72768>>, <<72784, 72812>>,
      <<72818, 72847>>, <<72960, 72966>>, <<72968, 72969>>, <<72971, 73008>>,
      <<73030, 73030>>, <<73040, 73049>>, <<73056, 73061>>, <<73063, 73064>>,
      <<73066, 73097>>, <<73112, 73112>>, <<73120, 73129>>, <<73440, 73458>>,
      <<73648, 73648>>, <<73664, 73684>>, <<73728, 74649>>, <<74752, 74862>>,
      <<74880, 75075>>, <<77712, 77808>>, <<77824, 78894>>, <<82944, 83526>>,
      <<92160, 92728>>, <<92736, 92766>>, <<92768, 92777>>, <<92784, 92862>>,
      <<92864, 92873>>, <<92880, 92909>>, <<92928, 92975>>, <<92992, 92995>>,
      <<93008, 93017>>, <<93019, 93025>>, <<93027, 93047>>, <<93053, 93071>>,
      <<93760, 93846>>, <<93952, 94026>>, <<94032, 94032>>, <<94099, 94111>>,
      <<94176, 94177>>, <<94179, 94179>>, <<94208, 100343>>,
      <<100352, 101589>>, <<101632, 101640>>, <<110576, 110579>>,
      <<110581, 110587>>, <<110589, 110590>>, <<110592, 110882>>,
      <<110928, 110930>>, <<110948, 110951>>, <<110960, 111355>>,
      <<113664, 113770>>, <<113776, 113788>>, <<113792, 113800>>,
      <<113808, 113817>>, <<119520, 119539>>, <<119648, 119672>>,
      <<119808, 119892>>, <<119894, 119964>>, <<119966, 119967>>,
      <<119970, 119970>>, <<119973, 119974>>, <<119977, 119980>>,
      <<119982, 119993>>, <<119995, 119995>>, <<119997, 120003>>,
      <<120005, 120069>>, <<120071, 120074>>, <<120077, 120084>>,
      <<120086, 120092>>, <<120094, 120121>>, <<120123, 120126>>,
      <<120128, 120132>>, <<120134, 120134>>, <<120138, 120144>>,
      <<120146, 120485>>, <<120488, 120512>>, <<120514, 120538>>,
      <<120540, 120570>>, <<120572, 120596>>, <<120598, 120628>>,
      <<120630, 120654>>, <<120656, 120686>>, <<120688, 120712>>,
      <<120714, 120744>>, <<120746, 120770>>, <<120772, 120779>>,
      <<120782, 120831>>, <<122624, 122654>>, <<123136, 123180>>,
      <<123191, 123197>>, <<123200, 123209>>, <<123214, 123214>>,
      <<123536, 123565>>, <<123584, 123627>>, <<123632, 123641>>,
      <<124896, 124902>>, <<124904, 124907>>, <<124909, 124910>>,
      <<124912, 124926>>, <<124928, 125124>>, <<125127, 125135>>,
      <<125184, 125251>>, <<125259, 125259>>, <<125264, 125273>>,
      <<126065, 126123>>, <<126125, 126127>>, <<126129, 126132>>,
      <<126209, 126253>>, <<126255, 126269>>, <<126464, 126467>>,
      <<126469, 126495>>, <<126497, 126498>>, <<126500, 126500>>,
      <<126503, 126503>>, <<126505, 126514>>, <<126516, 126519>>,
      <<126521, 126521>>, <<126523, 126523>>, <<126530, 126530>>,
      <<126535, 126535>>, <<126537, 126537>>, <<126539, 126539>>,
      <<126541, 126543>>, <<126545, 126546>>, <<126548, 126548>>,
      <<126551, 126551>>, <<126553, 126553>>, <<126555, 126555>>,
      <<126557, 126557>>, <<126559, 126559>>, <<126561, 126562>>,
      <<126564, 126564>>, <<126567, 126570>>, <<126572, 126578>>,
      <<126580, 126583>>, <<126585, 126588>>, <<126590, 126590>>,
      <<126592, 126601>>, <<126603, 126619>>, <<126625, 126627>>,
      <<126629, 126633>>, <<126635, 126651>>, <<127232, 127244>>,
      <<130032, 130041>>, <<131072, 173791>>, <<173824, 177976>>,
      <<177984, 178205>>, <<178208, 183969>>, <<183984, 191456>>,
      <<194560, 195101>>, <<196608, 201546>>>>

IsWordChar(c) == InRanges(ord(c), WordChars)

\* re.sub(r"\s+", " ", title).strip().lower()
RECURSIVE CollapseFrom(_, _)
CollapseFrom(text, i) ==
    IF i > Len(text) THEN <<>>
    ELSE IF text[i] \in Whitespace
    THEN (IF i > 1 /\ text[i - 1] \in Whitespace THEN <<>> ELSE <<" ">>)
             \o CollapseFrom(text, i + 1)
    ELSE LowerAt(text, i) \o CollapseFrom(text, i + 1)

preprocess_title(title) == Strip(CollapseFrom(title, 1))

\* the tokens: the maximal runs of word characters, in order
WordStarts(text) ==
    {i \in 1..Len(text) :
        IsWordChar(text[i]) /\ (i = 1 \/ ~IsWordChar(text[i - 1]))}
WordEnd(text, i) ==
    CHOOSE j \in i..Len(text) :
        /\ \A k \in i..j : IsWordChar(text[k])
        /\ (j = Len(text) \/ ~IsWordChar(text[j + 1]))
Tokens(text) ==
    [k \in 1..Cardinality(WordStarts(text)) |->
        LET i == CHOOSE x \in WordStarts(text) :
                    Cardinality({y \in WordStarts(text) : y < x}) = k - 1
        IN  SubSeq(text, i, WordEnd(text, i))]

\* the terms of one document: its word n-grams of length 1 to 3
TermsOf(tokens) ==
    {SubSeq(tokens, p[1], p[1] + p[2] - 1) :
        p \in {q \in (1..Len(tokens)) \X (1..3) :
                  q[1] + q[2] - 1 <= Len(tokens)}}

\* the number of documents that hold the term
DocumentFrequency(term, docs) ==
    Cardinality({d \in 1..Len(docs) : term \in docs[d]})

\* fit_transform raises ValueError: the vocabulary is empty, or
\* max_df * n_doc < min_df, or no term is left with min_df <= df <= max_df * n_doc
VectorizerRaisesOn(docs) ==
    \/ \A d \in 1..Len(docs) : docs[d] = {}
    \/ 8 * Len(docs) < 10
    \/ \A d \in 1..Len(docs) : \A term \in docs[d] :
          10 * DocumentFrequency(term, docs) > 8 * Len(docs)

\* the ValueError fit_transform raises, by the first test that fails
VectorizerErrorOn(docs) ==
    Exception("ValueError",
        IF \A d \in 1..Len(docs) : docs[d] = {}
        THEN
          <<"e", "m", "p", "t", "y", " ", "v", "o", "c", "a", "b", "u", "l",
            "a", "r", "y", ";", " ", "p", "e", "r", "h", "a", "p", "s", " ",
            "t", "h", "e", " ", "d", "o", "c", "u", "m", "e", "n", "t", "s",
            " ", "o", "n", "l", "y", " ", "c", "o", "n", "t", "a", "i", "n",
            " ", "s", "t", "o", "p", " ", "w", "o", "r", "d", "s">>
        ELSE IF 8 * Len(docs) < 10
        THEN
          <<"m", "a", "x", "_", "d", "f", " ", "c", "o", "r", "r", "e", "s",
            "p", "o", "n", "d", "s", " ", "t", "o", " ", "<", " ", "d", "o",
            "c", "u", "m", "e", "n", "t", "s", " ", "t", "h", "a", "n", " ",
            "m", "i", "n", "_", "d", "f">>
        ELSE
          <<"A", "f", "t", "e", "r", " ", "p", "r", "u", "n", "i", "n", "g",
            ",", " ", "n", "o", " ", "t", "e", "r", "m", "s", " ", "r", "e",
            "m", "a", "i", "n", ".", " ", "T", "r", "y", " ", "a", " ", "l",
            "o", "w", "e", "r", " ", "m", "i", "n", "_", "d", "f", " ", "o",
            "r", " ", "a", " ", "h", "i", "g", "h", "e", "r", " ", "m", "a",
            "x", "_", "d", "f", ".">>)

DocumentsOf(fs) ==
    [d \in 1..Len(fs) |->
        TermsOf(Tokens(preprocess_title(Get(fs[d], "title", <<>>))))]

VectorizerRaises(fs) == VectorizerRaisesOn(DocumentsOf(fs))

cluster_news_titles_tfidf(fs, sim, similarity_threshold) ==
    IF fs = <<>> THEN [error |-> NoError, value |-> <<>>]
    ELSE IF VectorizerRaises(fs)
    THEN [error |-> VectorizerErrorOn(DocumentsOf(fs)), value |-> <<>>]
    ELSE ClusterBySimilarity(fs, sim, similarity_threshold)

\* cluster_news_titles without its `if not feeds` short cut
ClusterWithoutShortCut(fs, sim, similarity_threshold, enc) ==
    IF IsImportError(enc)
    THEN cluster_news_titles_tfidf(fs, sim, similarity_threshold)
    ELSE IF enc # NoError THEN [error |-> enc, value |-> <<>>]
    ELSE ClusterBySimilarity(fs, sim, similarity_threshold)

\* enc is what constructing the SentenceTransformer does: NoError, or the
\* exception it raises; only ImportError and its subclasses are handled
cluster_news_titles(fs, sim, similarity_threshold, enc) ==
    IF fs = <<>> THEN [error |-> NoError, value |-> <<>>]
    ELSE IF IsImportError(enc)
    THEN cluster_news_titles_tfidf(fs, sim, similarity_threshold)
    ELSE IF enc # NoError THEN [error |-> enc, value |-> <<>>]
    ELSE ClusterBySimilarity(fs, sim, similarity_threshold)

(***************************************************************************)
(* The state machine.  pc is the place in process_and_send_news:           *)
(*   "fetch" -Fetch-> "fetched" -Notify-> "filter" -Filter-> "cluster"     *)
(*   -Cluster-> "format" -Format-> "formatted" -SendHeader-> "sending"     *)
(*   -SendPage-> ... -> "done";  a raised exception leads to "raised" and  *)
(*   -HandleError-> "done", or to "escaped" when the handler's own send    *)
(*   raises and the exception leaves process_and_send_news.                *)
(* Each function is also run on its own, from the place before it, on      *)
(* inputs drawn from a pool.  send_daily_updates runs the pipeline once    *)
(* for every user: "job" -GetUsers-> "next_user" -Greet-> "fetch" ...      *)
(* -EndRun-> "next_user" ... -EndJob-> "job_done".                         *)
(***************************************************************************)
args == <<topic, location, language>>
params == <<now, threshold, max_clusters>>
env == <<feed_source, encoder>>
job == <<users, attempted, caught>>

SeqsUpTo(S, n) == UNION {[1..k -> S] : k \in 0..n}

DefaultThreshold == 5
DefaultMaxClusters == 10

\* feeds = fetch_recent_news(topic, location=location, language=language)
Fetch ==
    /\ pc = "fetch"
    /\ LET result == fetch_recent_news(topic, feed_source, location, language)
       IN  /\ queries' = result.queries
           /\ error' = result.error
           /\ feeds' = IF result.error = NoError THEN result.feeds ELSE feeds
           /\ pc' = IF result.error = NoError THEN "fetched" ELSE "raised"
    /\ UNCHANGED <<args, params, env, job, loads, recent_feeds, similarity,
                   clusters, messages, sent>>

\* recent_feeds = filter_recent_news(feeds)
Filter ==
    /\ pc = "filter"
    /\ error' = filter_recent_news(feeds, now).error
    /\ recent_feeds' = filter_recent_news(feeds, now).value
    /\ pc' = IF filter_recent_news(feeds, now).error = NoError
             THEN "cluster" ELSE "raised"
    /\ UNCHANGED <<args, params, env, job, loads, queries, feeds, similarity,
                   clusters, messages, sent>>

SimValues == {2, 5, 6, 9}

\* the symmetric matrices with 1.0 on the diagonal
Max(a, b) == IF a > b THEN a ELSE b
PairsOf(n) == {p \in (1..n) \X (1..n) : p[1] < p[2]}
SimilarityMatrices(n) ==
    {[i \in 1..n |-> [j \in 1..n |->
        IF i = j THEN Scale ELSE below[<<Min(i, j), Max(i, j)>>]]] :
            below \in [PairsOf(n) -> SimValues]}

\* the clusterer's result is bound to clusters, or its exception raised
Returns(result, returned, raised) ==
    /\ error' = result.error
    /\ clusters' = result.value
    /\ pc' = IF result.error = NoError THEN returned ELSE raised

\* model = SentenceTransformer(...) is executed by every call that is given
\* entries; the encoder is loaded whenever the constructor succeeds
LoadsAfter(n, fs, enc) == IF fs # <<>> /\ enc = NoError THEN n + 1 ELSE n

\* clusters = cluster_news_titles(recent_feeds, similarity_threshold);
\* the similarity engine answers with some matrix for the titles
Cluster ==
    /\ pc = "cluster"
    /\ loads' = LoadsAfter(loads, recent_feeds, encoder)
    /\ \E sim \in SimilarityMatrices(Len(recent_feeds)) :
          /\ similarity' = sim
          /\ Returns(cluster_news_titles(recent_feeds, sim, threshold,
                                         encoder), "format", "raised")
    /\ UNCHANGED <<args, params, env, job, queries, feeds, recent_feeds,
                   messages, sent>>

\* clusters = cluster_news_titles_tfidf(recent_feeds, similarity_threshold),
\* called on its own
ClusterTfidf ==
    /\ pc = "cluster"
    /\ \E sim \in SimilarityMatrices(Len(recent_feeds)) :
          /\ similarity' = sim
          /\ Returns(cluster_news_titles_tfidf(recent_feeds, sim, threshold),
                     "clustered_tfidf", "raised_tfidf")
    /\ UNCHANGED <<args, params, env, job, loads, queries, feeds,
                   recent_feeds, messages, sent>>

\* messages = format_clusters_for_telegram(clusters, max_clusters)
Format ==
    /\ pc = "format"
    /\ messages' = format_clusters_for_telegram(clusters, max_clusters)
    /\ pc' = "formatted"
    /\ UNCHANGED <<args, params, env, job, loads, queries, feeds,
                   recent_feeds, similarity, clusters, sent, error>>

\* a message handed to context.bot.send_message; ok tells whether the call
\* returned (the message reached the chat) or raised
Message(kind, text, ok) == [kind |-> kind, text |-> text, ok |-> ok]

\* the exception of a send_message call that fails on the way
SendFailure ==
    Exception("TelegramError",
        <<"T", "i", "m", "e", "d", " ", "o", "u", "t">>)

\* the exception of a send_message call whose text is empty: the Bot API
\* refuses such a message
EmptyText ==
    Exception("BadRequest",
        <<"M", "e", "s", "s", "a", "g", "e", " ", "t", "e", "x", "t", " ",
          "i", "s", " ", "e", "m", "p", "t", "y">>)

\* whether a send_message call with this text may return, and what the call
\* raises when it does not
SendOutcomes(text) == IF text = <<>> THEN {FALSE} ELSE BOOLEAN
SendError(text) == IF text = <<>> THEN EmptyText ELSE SendFailure

\* the notices of process_and_send_news; CROSS, CHECK and NEWSPAPER are the
\* cross mark, the check mark and the newspaper sign
NoArticlesText ==
    <<"CROSS", " ", "N", "o", " ", "n", "e", "w", "s", " ", "a", "r", "t",
      "i", "c", "l", "e", "s", " ", "f", "o", "u", "n", "d", " ", "f", "o",
      "r", " ", "y", "o", "u", "r", " ", "q", "u", "e", "r", "y", "\\", ".">>

FetchedText ==
    <<"CHECK", " ", "F", "e", "t", "c", "h", "e", "d", " ", "a", "r", "t",
      "i", "c", "l", "e", "s", ".", " ", "A", "n", "a", "l", "y", "z", "i",
      "n", "g", ".", ".", ".">>

\* datetime.now().strftime("%d-%m-%Y") during the run
Today == <<"2", "9", "-", "1", "0", "-", "2", "0", "2", "6">>

HeadingText(date) ==
    <<"NEWSPAPER", " ", "*", "N", "e", "w", "s", " ", "C", "l", "u", "s", "t",
      "e", "r", "s", " ", "f", "o", "r", " ">>
        \o escape_markdown_v2(date) \o <<"*", "\n", "\n">>

\* SendInTry with the exception of a failed send swallowed
SendInTrySwallowed(kind, text, ok, next) ==
    /\ sent' = Append(sent, Message(kind, text, ok))
    /\ pc' = next
    /\ error' = IF ok THEN error ELSE SendError(text)

\* await context.bot.send_message(...) inside the try block: the message is
\* handed over; when the call raises, control goes to the except clause
SendInTry(kind, text, ok, next) ==
    /\ sent' = Append(sent, Message(kind, text, ok))
    /\ pc' = IF ok THEN next ELSE "raised"
    /\ error' = IF ok THEN error ELSE SendError(text)

\* if not feeds: send the notice and return; else send "Fetched articles"
Notify ==
    /\ pc = "fetched"
    /\ IF feeds = <<>>
       THEN \E ok \in SendOutcomes(NoArticlesText) :
               SendInTry("no_articles", NoArticlesText, ok, "done")
       ELSE \E ok \in SendOutcomes(FetchedText) :
               SendInTry("fetched", FetchedText, ok, "filter")
    /\ UNCHANGED <<args, params, env, job, loads, queries, feeds,
                   recent_feeds, similarity, clusters, messages>>

\* if messages: send the dated heading
SendHeader ==
    /\ pc = "formatted"
    /\ IF messages # <<>>
       THEN \E ok \in SendOutcomes(HeadingText(Today)) :
               SendInTry("heading", HeadingText(Today), ok, "sending")
       ELSE pc' = "sending" /\ UNCHANGED <<sent, error>>
    /\ UNCHANGED <<args, params, env, job, loads, queries, feeds,
                   recent_feeds, similarity, clusters, messages>>

PagesSent ==
    Cardinality({k \in 1..Len(sent) : sent[k].kind = "page" /\ sent[k].ok})

\* for msg in messages: send it
SendPage ==
    /\ pc = "sending"
    /\ IF PagesSent < Len(messages)
       THEN \E ok \in SendOutcomes(messages[PagesSent + 1]) :
               SendInTry("page", messages[PagesSent + 1], ok, "sending")
       ELSE pc' = "done" /\ UNCHANGED <<sent, error>>
    /\ UNCHANGED <<args, params, env, job, loads, queries, feeds,
                   recent_feeds, similarity, clusters, messages>>

\* the text of the failure notice; CROSS is the cross mark
ErrorNotice(e) ==
    <<"CROSS", " ", "A", "n", " ", "e", "r", "r", "o", "r", " ", "o", "c", "c",
      "u", "r", "r", "e", "d", ":", " ">> \o e.message

\* except Exception as e: send the notice that holds str(e); when this send
\* raises, the exception leaves process_and_send_news
HandleError ==
    /\ pc = "raised"
    /\ \E ok \in SendOutcomes(ErrorNotice(error)) :
          /\ sent' = Append(sent, Message("error", ErrorNotice(error), ok))
          /\ pc' = IF ok THEN "done" ELSE "escaped"
          /\ error' = IF ok THEN error ELSE SendError(ErrorNotice(error))
    /\ UNCHANGED <<args, params, env, job, loads, queries, feeds,
                   recent_feeds, similarity, clusters, messages>>

(***************************************************************************)
(* process_and_send_news on the answers of a feed endpoint                 *)
(***************************************************************************)
MaxAnswered == 2     \* entries the three queries return in all
LongLinkLen == 2000  \* a link such that two articles overflow one message

Published(name, parsed) ==
    [title |-> <<name>>, link |-> <<"l", name>>, published_parsed |-> parsed]

\* two entries with links so long that their cluster overflows one message
LongLink(name) == <<"l", name>> \o Rep("x", LongLinkLen)
N_new == [title |-> <<"p">>, link |-> LongLink("p"),
          published_parsed |-> <<99>>]
N_again == [title |-> <<"P", "!">>, link |-> LongLink("p"),
            published_parsed |-> <<98>>,
            source |-> [title |-> <<"s", ".">>]]
N_other == [title |-> <<"q">>, link |-> LongLink("q"),
            published_parsed |-> <<60>>]
N_old == Published("o", <<10>>)
N_undated == Published("n", None)
NewsPool == {N_new, N_again, N_other, N_old, N_undated}

\* what feedparser.parse may do on one query that yields k entries: answer
\* with a well-formed feed or with a damaged one; with no entry the request
\* may also have failed, reported through the flag or by an exception
AnswersOfLength(pool, k) ==
    {Answer(es) : es \in [1..k -> pool]}
        \cup {Damaged(es) : es \in [1..k -> pool]}
        \cup (IF k = 0 THEN {Raised(FeedFailure)} ELSE {})

Lengths(n) ==
    {ks \in (0..n) \X (0..n) \X (0..n) : ks[1] + ks[2] + ks[3] <= n}

\* the answers to the three queries, n entries in all at most
FeedSources(pool, n) ==
    UNION {{<<a1, a2, a3>> : a1 \in AnswersOfLength(pool, ks[1]),
                             a2 \in AnswersOfLength(pool, ks[2]),
                             a3 \in AnswersOfLength(pool, ks[3])} :
              ks \in Lengths(n)}

\* what constructing the encoder may do: succeed, or raise
EncoderOutcomes ==
    {NoError,
     Exception("ImportError",
        <<"c", "a", "n", "n", "o", "t", " ", "i", "m", "p", "o", "r", "t",
          " ", "n", "a", "m", "e", " ", "'", "A", "u", "t", "o", "M", "o",
          "d", "e", "l", "'", " ", "f", "r", "o", "m", " ", "'", "t", "r",
          "a", "n", "s", "f", "o", "r", "m", "e", "r", "s", "'">>),
     Exception("ModuleNotFoundError",
        <<"N", "o", " ", "m", "o", "d", "u", "l", "e", " ", "n", "a", "m",
          "e", "d", " ", "'", "t", "o", "r", "c", "h", "'">>),
     Exception("OSError",
        <<"C", "a", "n", "'", "t", " ", "l", "o", "a", "d", " ", "t", "h",
          "e", " ", "m", "o", "d", "e", "l">>)}

Init ==
    /\ pc = "fetch"
    /\ location = "IT" /\ language = "it"
    /\ \/ topic = Topic /\ feed_source \in FeedSources(NewsPool, MaxAnswered)
       \/ topic = NoTopic /\ feed_source = <<Failed, Failed, Failed>>
    /\ queries = <<>>
    /\ feeds = <<>> /\ now = 100 /\ recent_feeds = <<>>
    /\ encoder \in EncoderOutcomes
    /\ similarity = <<>> /\ threshold = DefaultThreshold
    /\ clusters = <<>> /\ max_clusters = DefaultMaxClusters
    /\ messages = <<>> /\ sent = <<>>
    /\ loads = 0 /\ users = <<>> /\ attempted = <<>> /\ caught = <<>>
    /\ error = NoError

Next ==
    \/ Fetch
    \/ Notify
    \/ Filter
    \/ Cluster
    \/ Format
    \/ SendHeader
    \/ SendPage
    \/ HandleError

Spec == Init /\ [][Next]_vars

(***************************************************************************)
(* fetch_recent_news on the answers of a feed endpoint                     *)
(***************************************************************************)
MaxFetched == 3      \* entries the three queries return in all

F_a == [title |-> <<"a">>, link |-> <<"l", "1">>]
F_b == [title |-> <<"b">>, link |-> <<"l", "1">>]
F_c == [title |-> <<"c">>, link |-> <<"l", "2">>]
F_nolink == [title |-> <<"d">>]
F_emptylink == [title |-> <<"e">>, link |-> <<>>]
FetchPool == {F_a, F_b, F_c, F_nolink, F_emptylink}

InitFetch ==
    /\ pc = "fetch"
    /\ \E arg \in {<<"IT", "it">>, <<"US", "en">>} :
          location = arg[1] /\ language = arg[2]
    /\ \/ topic = Topic /\ feed_source \in FeedSources(FetchPool, MaxFetched)
       \/ topic = NoTopic /\ feed_source = <<Failed, Failed, Failed>>
    /\ queries = <<>>
    /\ feeds = <<>> /\ now = 0 /\ recent_feeds = <<>>
    /\ encoder = NoError /\ similarity = <<>> /\ threshold = DefaultThreshold
    /\ clusters = <<>> /\ max_clusters = DefaultMaxClusters
    /\ messages = <<>> /\ sent = <<>>
    /\ loads = 0 /\ users = <<>> /\ attempted = <<>> /\ caught = <<>>
    /\ error = NoError

NextFetch == Fetch

SpecFetch == InitFetch /\ [][NextFetch]_vars

(***************************************************************************)
(* filter_recent_news on entry lists                                       *)
(***************************************************************************)
MaxFiltered == 3     \* entries in the list given to the filter

FilterPool ==
    { Published("p", <<51>>), Published("q", <<52>>), Published("r", <<53>>),
      Published("s", <<99>>), Published("n", None),
      [title |-> <<"u">>, link |-> <<"l", "u">>] }

NowValues == {100, 101}

InitFilter ==
    /\ pc = "filter"
    /\ topic = Topic /\ location = "" /\ language = ""
    /\ feed_source = <<>> /\ queries = <<>>
    /\ feeds \in SeqsUpTo(FilterPool, MaxFiltered)
    /\ now \in NowValues
    /\ recent_feeds = <<>>
    /\ encoder = NoError /\ similarity = <<>> /\ threshold = DefaultThreshold
    /\ clusters = <<>> /\ max_clusters = DefaultMaxClusters
    /\ messages = <<>> /\ sent = <<>>
    /\ loads = 0 /\ users = <<>> /\ attempted = <<>> /\ caught = <<>>
    /\ error = NoError

NextFilter == Filter

SpecFilter == InitFilter /\ [][NextFilter]_vars

(***************************************************************************)
(* cluster_news_titles and cluster_news_titles_tfidf on entry lists        *)
(***************************************************************************)
MaxClustered == 3    \* entries in the list given to the clusterer

ClusterEntries ==
    << [title |-> <<"r", "a", "i", "n">>, link |-> <<"k", "1">>,
        published |-> <<"m", "o", "n">>, source |-> [title |-> <<"s", "1">>]],
       [title |-> <<"R", "a", "i", "n">>, link |-> <<"k", "2">>,
        source |-> [href |-> <<"h">>]],
       [link |-> <<"k", "3">>, published |-> <<"t", "u", "e">>],
       [title |-> <<"U00C8", " ", "s", "u", "n">>, link |-> <<"k", "4">>],
       [title |-> <<"f", "o", "g">>, link |-> <<"k", "5">>,
        source |-> [title |-> <<"s", "5">>]],
       [title |-> <<"s", "u", "n", " ", "f", "o", "g">>,
        link |-> <<"k", "6">>] >>

\* the lists of n consecutive entries that start at the first or the second
ClusterInputs ==
    {SubSeq(ClusterEntries, o, o + n - 1) : n \in 0..MaxClustered, o \in 1..2}

Thresholds == {3, 5, 7}

InitCluster ==
    /\ pc = "cluster"
    /\ topic = Topic /\ location = "" /\ language = ""
    /\ feed_source = <<>> /\ queries = <<>>
    /\ feeds = <<>> /\ now = 0
    /\ recent_feeds \in ClusterInputs
    /\ encoder \in EncoderOutcomes
    /\ similarity = <<>>
    /\ threshold \in Thresholds
    /\ clusters = <<>> /\ max_clusters = DefaultMaxClusters
    /\ messages = <<>> /\ sent = <<>>
    /\ loads = 0 /\ users = <<>> /\ attempted = <<>> /\ caught = <<>>
    /\ error = NoError

NextCluster == Cluster \/ ClusterTfidf

SpecCluster == InitCluster /\ [][NextCluster]_vars

(***************************************************************************)
(* format_clusters_for_telegram on cluster mappings                        *)
(***************************************************************************)
MaxMulti == 2        \* multi-article clusters in a mapping
BigLinkLen == 2000   \* a link such that two articles overflow one message
MidLinkLen == 1800   \* a link such that two blocks fit one message, three do not
ManySingles == 11    \* one more single-article cluster than the section lists

Article(title, link, source) ==
    [title |-> title, link |-> link, published |-> <<>>, source |-> source]

A_plain == Article(<<"a", "b">>, <<" ", "\f", "u", "1", "NBSP", " ">>, <<"s">>)
A_res == Article(<<"a", ".", "b", "!">>, <<"u", "_", "2">>, <<"s", "-", "t">>)
A_bs == Article(<<"\\", ".">>, <<"u", "3">>, <<"s", "\\">>)
A_long == Article(Rep("a", ArticleTitleLen - 1) \o <<".", "!">> \o Rep("b", 25),
                  <<"u", "4">>,
                  Rep("s", SourceLen - 1) \o <<"_", "x">>)
A_biglink == Article(<<"c", "#">>, Rep("x", BigLinkLen), <<"s">>)
A_midlink == Article(<<"d">>, Rep("y", MidLinkLen), <<"s">>)

\* articles that differ in their links
Names ==
    <<"a", "b", "c", "d", "e", "f", "g", "h", "i", "j", "k", "l", "m", "n",
      "o", "p", "q", "r", "s", "t", "u", "v", "w", "x", "y", "z">>
A_nth(i) ==
    Article(<<"a", ".", "b", "!">>, <<"u", "_", Names[i]>>, <<"s", "-", "t">>)

\* k single-article clusters, each of another article
Singles(k) == [i \in 1..k |-> <<A_nth(i)>>]

ClusterPool ==
    { <<A_plain, A_res>>,
      <<A_biglink, A_biglink>>,
      <<A_res, A_plain, A_nth(23), A_nth(24), A_nth(25), A_nth(26)>>,
      <<A_long, A_bs>>,
      <<A_midlink, A_plain>> }

SingleCounts == {0, 1, ManySingles}
MaxClustersArgs == {-1, 0, 1, 10}

\* the dict {0: arts, 1: arts, ...} holding the given article lists
Mapping(lists) == [k \in 1..Len(lists) |-> [cid |-> k - 1, arts |-> lists[k]]]

FormatInputs ==
    {Mapping(Singles(k) \o multi) :
        k \in SingleCounts, multi \in SeqsUpTo(ClusterPool, MaxMulti)}

InitFormat ==
    /\ pc = "format"
    /\ topic = Topic /\ location = "" /\ language = ""
    /\ feed_source = <<>> /\ queries = <<>>
    /\ feeds = <<>> /\ now = 0 /\ recent_feeds = <<>>
    /\ encoder = NoError /\ similarity = <<>> /\ threshold = DefaultThreshold
    /\ clusters \in FormatInputs
    /\ max_clusters \in MaxClustersArgs
    /\ messages = <<>> /\ sent = <<>>
    /\ loads = 0 /\ users = <<>> /\ attempted = <<>> /\ caught = <<>>
    /\ error = NoError

NextFormat == Format

SpecFormat == InitFormat /\ [][NextFormat]_vars

(***************************************************************************)
(* send_daily_updates (src/src/handlers.py): the daily job                 *)
(***************************************************************************)
MaxUsers == 2        \* users the database returns

\* a row of get_users_with_automatic_updates
User(id, tp, loc, lang) ==
    [id |-> id, topic |-> tp, location |-> loc, language |-> lang]

\* the topic column may be NULL
UserPool ==
    {User(1, Topic, "IT", "it"), User(2, NoTopic, "US", "en"),
     User(3, Topic, "DE", "en")}

\* the greeting, with str(topic) inside; SUNRISE is the sunrise sign
GreetingText(tp) ==
    <<"SUNRISE", " ", "G", "o", "o", "d", " ", "m", "o", "r", "n", "i", "n",
      "g", "!", " ", "H", "e", "r", "e", "'", "s", " ", "y", "o", "u", "r",
      " ", "d", "a", "i", "l", "y", " ", "n", "e", "w", "s", " ", "a", "b",
      "o", "u", "t", " ", "*">>
        \o (IF tp = NoTopic THEN <<"N", "o", "n", "e">> ELSE tp) \o <<"*">>

\* the lists of up to n rows, no id twice (id is the primary key)
UserLists(n) ==
    {us \in SeqsUpTo(UserPool, n) :
        \A i, j \in 1..Len(us) : us[i].id = us[j].id => i = j}

\* what the feed endpoint may answer during one user's run
DailySources ==
    { <<Failed, Failed, Failed>>,
      <<Answer(<<N_new>>), Raised(FeedFailure), Failed>>,
      <<Answer(<<N_new, N_other>>), Failed, Answer(<<N_again>>)>>,
      <<Answer(<<N_old>>), Answer(<<>>), Answer(<<N_new>>)>>,
      <<Answer(<<N_undated>>), Answer(<<>>), Answer(<<>>)>> }

\* the exceptions that leave get_users_with_automatic_updates: the pool was
\* never set up, or the pool has no connection left
DbFailures ==
    {Exception("Exception",
        <<"C", "o", "n", "n", "e", "c", "t", "i", "o", "n", " ", "p", "o",
          "o", "l", " ", "n", "o", "t", " ", "i", "n", "i", "t", "i", "a",
          "l", "i", "z", "e", "d", ".", " ", "C", "a", "l", "l", " ", "i",
          "n", "i", "t", "_", "d", "b", "_", "p", "o", "o", "l", "(", ")",
          " ", "f", "i", "r", "s", "t", ".">>),
     Exception("PoolError",
        <<"c", "o", "n", "n", "e", "c", "t", "i", "o", "n", " ", "p", "o",
          "o", "l", " ", "e", "x", "h", "a", "u", "s", "t", "e", "d">>)}

\* users = get_users_with_automatic_updates(): the rows, or the exception of
\* the database layer, which the job does not handle
GetUsers ==
    /\ pc = "job"
    /\ \/ \E us \in UserLists(MaxUsers) :
             users' = us /\ pc' = "next_user" /\ error' = NoError
       \/ users' = <<>> /\ pc' = "job_raised" /\ error' \in DbFailures
    /\ UNCHANGED <<args, params, env, attempted, caught, loads, queries,
                   feeds, recent_feeds, similarity, clusters, messages, sent>>

\* for user in users: try: send the greeting, then enter
\* process_and_send_news; a greeting that raises is caught and printed, and
\* the loop goes on with the next user
Greet ==
    /\ pc = "next_user"
    /\ Len(attempted) < Len(users)
    /\ attempted' = Append(attempted, users[Len(attempted) + 1].id)
    /\ topic' = users[Len(attempted) + 1].topic
    /\ location' = users[Len(attempted) + 1].location
    /\ language' = users[Len(attempted) + 1].language
    /\ \E ok \in SendOutcomes(GreetingText(topic')) :
          /\ sent' = <<Message("greeting", GreetingText(topic'), ok)>>
          /\ pc' = IF ok THEN "fetch" ELSE "next_user"
          /\ error' = IF ok THEN NoError
                      ELSE SendError(GreetingText(topic'))
          /\ caught' = IF ok THEN caught
                       ELSE Append(caught, users[Len(attempted) + 1].id)
    /\ feed_source' \in DailySources
    /\ encoder' \in EncoderOutcomes
    /\ queries' = <<>> /\ feeds' = <<>> /\ recent_feeds' = <<>>
    /\ similarity' = <<>> /\ clusters' = <<>> /\ messages' = <<>>
    /\ UNCHANGED <<params, users, loads>>

\* EndRun without the loop's except clause: the exception leaves the job
EndRunUncaught ==
    /\ pc \in {"done", "escaped"}
    /\ pc' = IF pc = "escaped" THEN "job_raised" ELSE "next_user"
    /\ UNCHANGED <<args, params, env, job, loads, queries, feeds,
                   recent_feeds, similarity, clusters, messages, sent, error>>

\* process_and_send_news returned, or its exception was caught by the
\* loop's except clause and printed
EndRun ==
    /\ pc \in {"done", "escaped"}
    /\ pc' = "next_user"
    /\ caught' = IF pc = "escaped"
                 THEN Append(caught, attempted[Len(attempted)])
                 ELSE caught
    /\ UNCHANGED <<args, params, env, users, attempted, loads, queries, feeds,
                   recent_feeds, similarity, clusters, messages, sent, error>>

\* the loop is exhausted
EndJob ==
    /\ pc = "next_user"
    /\ Len(attempted) = Len(users)
    /\ pc' = "job_done"
    /\ UNCHANGED <<args, params, env, job, loads, queries, feeds,
                   recent_feeds, similarity, clusters, messages, sent, error>>

InitDaily ==
    /\ pc = "job"
    /\ topic = Topic /\ location = "" /\ language = ""
    /\ feed_source = <<Failed, Failed, Failed>>
    /\ queries = <<>>
    /\ feeds = <<>> /\ now = 100 /\ recent_feeds = <<>>
    /\ encoder = NoError
    /\ similarity = <<>> /\ threshold = DefaultThreshold
    /\ clusters = <<>> /\ max_clusters = DefaultMaxClusters
    /\ messages = <<>> /\ sent = <<>>
    /\ loads = 0 /\ users = <<>> /\ attempted = <<>> /\ caught = <<>>
    /\ error = NoError

NextDaily ==
    \/ GetUsers
    \/ Greet
    \/ Fetch
    \/ Notify
    \/ Filter
    \/ Cluster
    \/ Format
    \/ SendHeader
    \/ SendPage
    \/ HandleError
    \/ EndRun
    \/ EndJob

SpecDaily == InitDaily /\ [][NextDaily]_vars

(***************************************************************************)
(* What the claims about fetching, filtering and clustering speak of       *)
(***************************************************************************)
\* the k-th smallest member of a set of numbers
KthSmallest(S, k) == CHOOSE i \in S : Cardinality({j \in S : j < i}) = k - 1

\* the members of a list at the positions of S, in list order
Subsequence(list, S) ==
    [k \in 1..Cardinality(S) |-> list[KthSmallest(S, k)]]

LinkOf(entry) == IF "link" \in DOMAIN entry THEN entry.link ELSE <<>>

\* the positions that hold the first occurrence of a link
FirstOccurrences(list) ==
    {i \in 1..Len(list) :
        /\ LinkOf(list[i]) # <<>>
        /\ \A j \in 1..(i - 1) : LinkOf(list[j]) # LinkOf(list[i])}

\* everything the three queries answered, in query order
Answered(source) == source[1].entries \o source[2].entries \o source[3].entries

\* a query failed: the flag is set, or an exception left feedparser.parse
FailedQuery(source, i) == source[i].bozo \/ source[i].raised # NoError

\* what the queries that did not fail answered, in query order
AnsweredBy(source, i) ==
    IF FailedQuery(source, i) THEN <<>> ELSE source[i].entries
AnsweredWithoutFailures(source) ==
    AnsweredBy(source, 1) \o AnsweredBy(source, 2) \o AnsweredBy(source, 3)

\* fetch_recent_news was called with a topic and has ended
FetchEnded == pc \in {"fetched", "raised"} /\ topic # NoTopic

Fetched == pc = "fetched"

\* C2: the three queries are (location, language), ("US", language),
\* (location, "en") in that order, and the result holds, in query order,
\* exactly the first occurrence of every link, with that occurrence's fields.
C2_FetchFirstOccurrence ==
    Fetched =>
        /\ queries = << <<location, language>>, <<"US", language>>,
                        <<location, "en">> >>
        /\ feeds = Subsequence(Answered(feed_source),
                               FirstOccurrences(Answered(feed_source)))

C2_Witness ==
    /\ Fetched
    /\ location = "IT"
    /\ feed_source[1].entries = <<F_c, F_a>>
    /\ feed_source[3].entries = <<F_b>>
    /\ feeds = <<F_c, F_a>>

\* C3: a failed query contributes nothing and stops nothing: all three
\* queries are issued, the answers of the others are returned (merged as
\* always), nothing is raised, and three failures give the empty list.
C3_FailedQueryIsolated ==
    FetchEnded /\ (\E i \in 1..3 : FailedQuery(feed_source, i)) =>
        /\ Len(queries) = 3
        /\ error = NoError /\ pc = "fetched"
        /\ feeds = Subsequence(AnsweredWithoutFailures(feed_source),
                       FirstOccurrences(AnsweredWithoutFailures(feed_source)))
        /\ (\A i \in 1..3 : FailedQuery(feed_source, i)) => feeds = <<>>

\* a failure that is only flagged and comes with no entry is isolated as
\* C3 says
C3_Witness ==
    /\ Fetched
    /\ feed_source[1] = Failed
    /\ feed_source[2] = Answer(<<F_a>>)
    /\ feed_source[3] = Answer(<<F_b, F_c>>)
    /\ feeds = <<F_a, F_c>>

FilterReturned == pc = "cluster"
FilterRaised == pc = "raised"

HasParsedTime(entry) ==
    "published_parsed" \in DOMAIN entry /\ entry.published_parsed # None

\* the positions of the entries published strictly after now - 2 days
RecentPositions(list, t) ==
    {i \in 1..Len(list) :
        HasParsedTime(list[i]) /\ list[i].published_parsed[1] > t - 48}

\* C4: of the entries that have a parsed publish time the filter returns
\* exactly those published strictly after now - 2 days (one published
\* exactly 2 days ago is dropped), in the order of the input.
C4_FilterStrictlyRecent ==
    FilterReturned => recent_feeds = Subsequence(feeds, RecentPositions(feeds, now))

C4_Witness ==
    /\ FilterReturned
    /\ now = 100
    /\ feeds = <<Published("s", <<99>>), Published("q", <<52>>),
                 Published("r", <<53>>)>>
    /\ recent_feeds = <<Published("s", <<99>>), Published("r", <<53>>)>>

\* C5: an entry without a parsed publish time (the field absent, or None) is
\* left out, the filter does not raise on it, and the other entries are
\* filtered as always.
C5_UnparsedDroppedQuietly ==
    FilterReturned \/ FilterRaised =>
        /\ error = NoError
        /\ recent_feeds = Subsequence(feeds, RecentPositions(feeds, now))

\* a call of cluster_news_titles or of cluster_news_titles_tfidf has ended
ClusterEnded == pc \in {"format", "raised", "clustered_tfidf", "raised_tfidf"}

\* the places <<k, m>> of the mapping that hold the given article
PlacesOf(cl, info) ==
    {p \in UNION {{<<k, m>> : m \in 1..Len(cl[k].arts)} : k \in 1..Len(cl)} :
        cl[p[1]].arts[p[2]] = info}

\* C6: for every non-empty list the clusterer returns a mapping that is a
\* partition of the list: every entry is in exactly one cluster, once; no
\* cluster is empty; no cluster holds anything else; no key is used twice.
C6_ClustersPartitionInput ==
    ClusterEnded /\ recent_feeds # <<>> =>
        /\ error = NoError
        /\ \A i \in 1..Len(recent_feeds) :
              Cardinality(PlacesOf(clusters, cluster_info(recent_feeds[i]))) = 1
        /\ SumSeq([k \in 1..Len(clusters) |-> Len(clusters[k].arts)])
              = Len(recent_feeds)
        /\ \A k \in 1..Len(clusters) : clusters[k].arts # <<>>
        /\ \A k, l \in 1..Len(clusters) :
              clusters[k].cid = clusters[l].cid => k = l

\* the TF-IDF variant raises on two titles that share their every term
C6_Witness ==
    /\ pc = "raised_tfidf"
    /\ recent_feeds = SubSeq(ClusterEntries, 1, 2)
    /\ error.type = "ValueError"
    /\ SubSeq(error.message, 1, 13)
          = <<"A", "f", "t", "e", "r", " ", "p", "r", "u", "n", "i", "n", "g">>
    /\ clusters = <<>>

\* the links of the members of each cluster of a mapping
GroupsOf(cl) ==
    {{cl[k].arts[m].link : m \in 1..Len(cl[k].arts)} : k \in 1..Len(cl)}

\* every group of fine lies inside a group of coarse
Refines(fine, coarse) == \A g \in fine : \E h \in coarse : g \subseteq h

\* the groups cluster_news_titles gives at threshold t on the entries and
\* the similarity matrix of the call that ended
GroupsAt(t) ==
    GroupsOf(cluster_news_titles(recent_feeds, similarity, t, encoder).value)

\* C7: on the same entries and the same similarity matrix, the clusters
\* cluster_news_titles gives at a higher threshold refine the clusters it
\* gives at a lower one.
C7_HigherThresholdRefines ==
    pc = "format" /\ encoder = NoError =>
        \A t \in Thresholds :
            /\ t > threshold => Refines(GroupsAt(t), GroupsOf(clusters))
            /\ t < threshold => Refines(GroupsOf(clusters), GroupsAt(t))

C7_Witness ==
    /\ pc = "format"
    /\ encoder = NoError
    /\ threshold = 5
    /\ Cardinality(GroupsOf(clusters)) = 2
    /\ Cardinality(GroupsAt(3)) = 1
    /\ Cardinality(GroupsAt(7)) = 3

(***************************************************************************)
(* What the claims about the formatter speak of                            *)
(***************************************************************************)
Reserved == {special_chars[k] : k \in 1..Len(special_chars)}

Count(text, S) == Cardinality({i \in 1..Len(text) : text[i] \in S})

\* the number of backslashes that stand right before position i
RECURSIVE BackslashesBefore(_, _)
BackslashesBefore(text, i) ==
    IF i > 1 /\ text[i - 1] = "\\" THEN 1 + BackslashesBefore(text, i - 1)
    ELSE 0

\* a MarkdownV2 client pairs backslashes from the left: a character is read
\* as an escaped literal when an odd number of backslashes stands before it
NoBareReserved(text) ==
    \A i \in 1..Len(text) :
        text[i] \in Reserved => BackslashesBefore(text, i) % 2 = 1

\* the clusters and the single articles that reach the output
ShownClusters(cl, maxc) == Take(multi_article_clusters(cl), maxc)
ShownArticles(articles, limit) == Take(articles, limit)
ShownSingles(cl) ==
    IF multi_article_clusters(cl) = <<>> THEN <<>>
    ELSE ShownArticles(single_article_cluster(cl), SingleArticles)

\* every shown article, with repetition, in output order
ArticlesOfShown(shown, singles) ==
    Join([k \in 1..Len(shown) |->
            ShownArticles(shown[k].articles, ArticlesPerCluster)]) \o singles

AllShownArticles(cl, maxc) ==
    ArticlesOfShown(ShownClusters(cl, maxc), ShownSingles(cl))

\* the raw feed texts that reach the output, cut as the formatter cuts them
RawFieldsOf(shown, articles) ==
    [k \in 1..Len(shown) |-> Take(shown[k].cluster_title, ClusterTitleLen)]
    \o [k \in 1..Len(articles) |-> Take(articles[k].title, ArticleTitleLen)]
    \o [k \in 1..Len(articles) |-> Take(articles[k].source, SourceLen)]

RawFields(cl, maxc) ==
    RawFieldsOf(ShownClusters(cl, maxc), AllShownArticles(cl, maxc))

\* the "more" notes that reach the output
NotesOfShown(shown, singles, allSingles) ==
    Cardinality({k \in 1..Len(shown) :
                    Len(shown[k].articles) > ArticlesPerCluster})
    + (IF Len(singles) < Len(allSingles) THEN 1 ELSE 0)

ShownNotes(cl, maxc) ==
    IF multi_article_clusters(cl) = <<>> THEN 0
    ELSE NotesOfShown(ShownClusters(cl, maxc), ShownSingles(cl),
                      single_article_cluster(cl))

Formatted == pc = "formatted"

\* C1: every string of the returned list is at most 3900 characters long,
\* also when one block alone is longer than that.
C1_PagesWithinBudget ==
    Formatted => \A i \in 1..Len(messages) : Len(messages[i]) <= MessageBudget

AllReadEscaped(fields) ==
    \A k \in 1..Len(fields) : NoBareReserved(escape_markdown_v2(fields[k]))

\* C8: in every title, heading and source name that reaches the output, the
\* client reads each reserved character as an escaped literal, whatever the
\* raw text holds (backslashes included).
C8_ReservedReadEscaped ==
    Formatted => AllReadEscaped(RawFields(clusters, max_clusters))

\* escaping the escaped text again changes nothing
EscapeIdempotentOn(raw) ==
    escape_markdown_v2(escape_markdown_v2(raw)) = escape_markdown_v2(raw)

AllIdempotent(fields) == \A k \in 1..Len(fields) : EscapeIdempotentOn(fields[k])

BackslashesIn(texts) ==
    SumSeq([k \in 1..Len(texts) |-> Count(texts[k], {"\\"})])

ReservedIn(texts) ==
    SumSeq([k \in 1..Len(texts) |-> Count(texts[k], Reserved)])

LinksOf(articles) == [k \in 1..Len(articles) |-> Strip(articles[k].link)]

\* C9 as stated: escaping the escaped text again changes nothing.
C9_EscapeIdempotent ==
    Formatted => AllIdempotent(RawFields(clusters, max_clusters))

EscapedOnce(fields, articles, notes, pages) ==
    /\ \A k \in 1..Len(fields) :
         EscapeIdempotentOn(fields[k]) <=> Count(fields[k], Reserved) = 0
    /\ BackslashesIn(pages)
         = ReservedIn(fields) + BackslashesIn(fields)
           + BackslashesIn(LinksOf(articles)) + 3 * notes

\* C9 as amended: escaping again leaves a text unchanged exactly when it holds
\* no reserved character; and each title, heading and source name that reaches
\* the output was escaped exactly once: the pages hold one backslash per
\* reserved character of the raw fields, besides the backslashes of the raw
\* fields and links themselves and the three of every "more" note.
C9_EscapedExactlyOnce ==
    Formatted /\ RawFields(clusters, max_clusters) # <<>> =>
        EscapedOnce(RawFields(clusters, max_clusters),
                    AllShownArticles(clusters, max_clusters),
                    ShownNotes(clusters, max_clusters), messages)

HasReserved(fields) == \E k \in 1..Len(fields) : Count(fields[k], Reserved) > 0

C9_Witness ==
    /\ Formatted
    /\ Len(messages) >= 2
    /\ HasReserved(RawFields(clusters, max_clusters))
    /\ ShownNotes(clusters, max_clusters) = 2

\* C10: a mapping without a cluster of more than one member gives exactly
\* the one placeholder message, and no single article is rendered.
C10_PlaceholderWhenNoMulti ==
    Formatted /\ (\A k \in 1..Len(clusters) : Len(clusters[k].arts) <= 1) =>
        messages = << <<"N", "o", " ", "c", "l", "u", "s", "t", "e", "r", "e",
                        "d", " ", "n", "e", "w", "s", " ", "f", "o", "u", "n",
                        "d", "\\", ".">> >>

C10_Witness ==
    /\ Formatted
    /\ Len(clusters) = ManySingles
    /\ \A k \in 1..Len(clusters) : Len(clusters[k].arts) = 1
    /\ Len(messages) = 1

(***************************************************************************)
(* What the claims about the clusterer's edge cases and the encoder speak of *)
(***************************************************************************)
\* a call of cluster_news_titles or cluster_news_titles_tfidf has ended
ClusterReturned == pc \in {"format", "clustered_tfidf"}
ClusterRaised == pc \in {"raised", "raised_tfidf"}
TfidfCalled == pc \in {"clustered_tfidf", "raised_tfidf"}

\* C11: with the encoder available, the clusterer given no entry returns the
\* empty mapping, and given one entry it returns one cluster that holds that
\* entry; neither call raises.
C11_DegenerateInputsHandled ==
    /\ ClusterReturned \/ ClusterRaised
    /\ Len(recent_feeds) <= 1
    /\ TfidfCalled \/ encoder = NoError
    => /\ error = NoError
       /\ recent_feeds = <<>> => clusters = <<>>
       /\ Len(recent_feeds) = 1 =>
             /\ Len(clusters) = 1
             /\ clusters[1].arts = <<cluster_info(recent_feeds[1])>>

\* the empty list is handled as C11 says
C11_Witness ==
    /\ ClusterReturned
    /\ recent_feeds = <<>>
    /\ clusters = <<>>
    /\ error = NoError

\* C12: over the runs of one process the encoder is loaded at most once.
C12_EncoderLoadedOnce == loads <= 1

\* C13: when the encoder is unavailable (its construction raises, whatever
\* the exception) and the TF-IDF variant can cluster the entries, the caller
\* gets the TF-IDF variant's mapping and no error.
C13_FallbackWhenUnavailable ==
    /\ pc \in {"format", "raised"}
    /\ encoder # NoError
    /\ Len(recent_feeds) >= 2
    /\ ~VectorizerRaises(recent_feeds)
    => /\ error = NoError
       /\ clusters = cluster_news_titles_tfidf(recent_feeds, similarity,
                                               threshold).value

\* the fallback is taken when the construction raises ImportError
C13_Witness ==
    /\ pc = "format"
    /\ encoder.type = "ImportError"
    /\ Len(recent_feeds) = 3
    /\ Len(clusters) = 2

(***************************************************************************)
(* What the claims about process_and_send_news speak of                    *)
(***************************************************************************)
RunEnded == pc \in {"done", "escaped"}

\* an exception was raised inside the try block
Faulted == error # NoError

KindCount(kind) == Cardinality({k \in 1..Len(sent) : sent[k].kind = kind})

\* the exception the except clause was entered with: that of the fetch, of
\* the send that failed, of the filter or of the clusterer
FaultText ==
    IF fetch_recent_news(topic, feed_source, location, language).error
           # NoError
    THEN fetch_recent_news(topic, feed_source, location, language).error
    ELSE IF Len(sent) >= 2 /\ ~sent[Len(sent) - 1].ok
    THEN SendError(sent[Len(sent) - 1].text)
    ELSE IF filter_recent_news(feeds, now).error # NoError
    THEN filter_recent_news(feeds, now).error
    ELSE cluster_news_titles(recent_feeds, similarity, threshold,
                             encoder).error

IsPrefix(a, b) == Len(a) <= Len(b) /\ \A k \in 1..Len(a) : a[k] = b[k]

\* the pages handed over are the first pages of messages, each once, in order
PagesInOrder ==
    LET at == {k \in 1..Len(sent) : sent[k].kind = "page"}
    IN  /\ Cardinality(at) <= Len(messages)
        /\ \A k \in at :
              sent[k].text = messages[Cardinality({j \in at : j <= k})]

\* no step ran twice
NothingRepeated ==
    /\ IsPrefix(queries, QueryList(location, language))
    /\ Len(queries) < 3 => Len(sent) = 1
    /\ KindCount("no_articles") + KindCount("fetched") <= 1
    /\ KindCount("heading") <= 1
    /\ PagesInOrder

\* C14 as stated: after a fault the chat holds one failure notice with the
\* error text, and nothing after it.
C14_FaultSurfacedToChat ==
    RunEnded /\ Faulted =>
        /\ KindCount("error") = 1
        /\ sent[Len(sent)] = Message("error", ErrorNotice(FaultText), TRUE)

\* C14 as amended: after a fault exactly one failure notice with the error
\* text is handed to send_message, as the last message of the run; every
\* message before the fault was delivered and no step ran twice; the notice
\* reaches the chat unless its own send raises, and then that exception
\* leaves process_and_send_news.
C14_FaultHandledOnce ==
    RunEnded /\ Faulted =>
        /\ KindCount("error") = 1
        /\ sent[Len(sent)].kind = "error"
        /\ sent[Len(sent)].text = ErrorNotice(FaultText)
        /\ sent[Len(sent)].ok <=> pc = "done"
        /\ ~sent[Len(sent)].ok => error = SendFailure
        /\ sent[Len(sent)].ok => error = FaultText
        /\ \A k \in 1..(Len(sent) - 2) : sent[k].ok
        /\ NothingRepeated

\* the first of two pages is refused, the notice is delivered and the
\* second page is never sent
C14_Witness ==
    /\ pc = "done"
    /\ Len(messages) = 2
    /\ Len(sent) = 4
    /\ sent[3] = Message("page", messages[1], FALSE)
    /\ sent[4] = Message("error", ErrorNotice(EmptyText), TRUE)

AllDelivered == \A k \in 1..Len(sent) : sent[k].ok

\* the fetch returned the empty list
EmptyAfterFetch ==
    /\ fetch_recent_news(topic, feed_source, location, language).error
           = NoError
    /\ Len(queries) = 3
    /\ feeds = <<>>

\* the fetch returned entries and the filter returned none of them
EmptyAfterFilter ==
    /\ feeds # <<>>
    /\ filter_recent_news(feeds, now) = [error |-> NoError, value |-> <<>>]

\* neither the clusterer nor the formatter ran
NothingClustered ==
    /\ recent_feeds = <<>> /\ similarity = <<>>
    /\ clusters = <<>> /\ messages = <<>> /\ loads = 0

Delivered(text) == \E k \in 1..Len(sent) : sent[k].text = text /\ sent[k].ok

LengthOfFirst(texts, k) == SumSeq([i \in 1..k |-> Len(texts[i])])

\* the ends of all pages but the last, as offsets into the whole output
CutsOf(pages) == {LengthOfFirst(pages, j) : j \in 1..(Len(pages) - 1)}

\* the last cut before the offset, or the start of the output
CutBefore(cuts, offset) ==
    IF \E c \in cuts : c < offset
    THEN CHOOSE c \in cuts : c < offset /\ \A d \in cuts : d < offset => d <= c
    ELSE 0

\* the pages are the blocks in order, cut only between blocks, and cut before
\* a block exactly when the page so far plus the block exceeds the budget
PackedInto(blocks, pages, cuts) ==
    /\ Join(pages) = Join(blocks)
    /\ Cardinality(cuts) = Len(pages) - 1
    /\ \A c \in cuts : \E k \in 0..(Len(blocks) - 1) :
          c = LengthOfFirst(blocks, k)
    /\ \A k \in 0..(Len(blocks) - 1) :
          LengthOfFirst(blocks, k) \in cuts
              <=> LengthOfFirst(blocks, k)
                    - CutBefore(cuts, LengthOfFirst(blocks, k))
                    + Len(blocks[k + 1]) > 3900

\* the sizes never grow along the list
Descending(shown) ==
    \A k, l \in 1..Len(shown) :
        k < l => Len(shown[k].articles) >= Len(shown[l].articles)

\* the blocks the claim speaks of: one per shown cluster, then the section of
\* the single articles
BlocksOf(shown, singles) ==
    [k \in 1..Len(shown) |-> cluster_text(shown[k])]
        \o (IF singles # <<>> THEN <<single_text(singles)>> ELSE <<>>)

\* C16: when a multi-article cluster is rendered, the pages concatenated are
\* the blocks concatenated (clusters by descending size, the single articles
\* last), every block lies whole in one page, and a page ends before a block
\* exactly when the page so far plus that block is longer than 3900.
C16_PagesAreBlocksInOrder ==
    Formatted /\ ShownClusters(clusters, max_clusters) # <<>> =>
        /\ Descending(ShownClusters(clusters, max_clusters))
        /\ PackedInto(BlocksOf(ShownClusters(clusters, max_clusters),
                               single_article_cluster(clusters)),
                      messages, CutsOf(messages))

\* three blocks: the second fits the page of the first, the third does not
C16_Witness ==
    /\ Formatted
    /\ Len(ShownClusters(clusters, max_clusters)) = 2
    /\ single_article_cluster(clusters) # <<>>
    /\ Len(messages) = 2
    /\ Len(messages[1]) > Len(cluster_text(ShownClusters(clusters,
                                                         max_clusters)[1]))

\* the positions of the output where the text starts
RECURSIVE StartsAt(_, _, _, _)
StartsAt(out, i, pat, k) ==
    \/ k > Len(pat)
    \/ /\ i + k - 1 <= Len(out)
       /\ out[i + k - 1] = pat[k]
       /\ StartsAt(out, i, pat, k + 1)

Occurrences(out, pat) ==
    {i \in 1..Len(out) : out[i] = pat[1] /\ StartsAt(out, i, pat, 2)}

\* the text from position i up to the next occurrence of the character
UpTo(out, i, c) ==
    SubSeq(out, i, (CHOOSE j \in i..Len(out) : out[j] = c) - 1)

\* the texts that follow the occurrences of the pattern, in output order
Following(out, at, n, c) ==
    [k \in 1..Cardinality(at) |-> UpTo(out, KthSmallest(at, k) + n, c)]

\* the links listed in the output, in order
ListedLinks(out) == Following(out, Occurrences(out, <<"]", "(">>), 2, ")")

\* the counts of the "more" notes in the output, in order, each with the
\* words that follow it
NoteStart == <<"\\", ".", "\\", ".", "\\", ".", "a", "n", "d", " ">>
ListedNotes(out) ==
    Following(out, Occurrences(out, NoteStart), Len(NoteStart), "_")

\* what the claim expects to be listed
ExpectedLinks(shown, singles) ==
    Join([k \in 1..Len(shown) |->
            [m \in 1..Min(5, Len(shown[k].articles)) |->
                Strip(shown[k].articles[m].link)]])
        \o [m \in 1..Min(10, Len(singles)) |-> Strip(singles[m].link)]

ExpectedNotes(shown, singles) ==
    Join([k \in 1..Len(shown) |->
            IF Len(shown[k].articles) > 5
            THEN <<Str(Len(shown[k].articles) - 5)
                     \o <<" ", "m", "o", "r", "e", " ", "r", "e", "l", "a", "t",
                          "e", "d", " ", "a", "r", "t", "i", "c", "l", "e",
                          "s">> >>
            ELSE <<>>])
        \o (IF Len(singles) > 10
            THEN <<Str(Len(singles) - 10)
                     \o <<" ", "m", "o", "r", "e", " ", "a", "r", "t", "i", "c",
                          "l", "e", "s">> >>
            ELSE <<>>)

\* the shown clusters are the largest multi-article clusters, max_clusters
\* of them at most (none for a max_clusters below 1), by descending size
LargestShown(cl, shown, maxc) ==
    /\ Len(shown)
          = Min(Max(maxc, 0),
                Cardinality({k \in 1..Len(cl) : Len(cl[k].arts) > 1}))
    /\ Descending(shown)
    /\ \E at \in [1..Len(shown) -> 1..Len(cl)] :
          /\ \A k, l \in 1..Len(shown) : at[k] = at[l] => k = l
          /\ \A k \in 1..Len(shown) : shown[k].articles = cl[at[k]].arts
          /\ \A j \in 1..Len(cl) :
                (Len(cl[j].arts) > 1 /\ \A k \in 1..Len(shown) : at[k] # j)
                    => \A k \in 1..Len(shown) :
                          Len(cl[j].arts) <= Len(shown[k].articles)

ListedAsClaimed(out, shown, singles) ==
    /\ ListedLinks(out) = ExpectedLinks(shown, singles)
    /\ ListedNotes(out) = ExpectedNotes(shown, singles)

\* C17: the output lists the max_clusters largest multi-article clusters at
\* most, by descending size; of each its first min(5, size) articles in
\* cluster order, with a "more" note exactly when size > 5, counting
\* size - 5; then the first min(10, k) of the k single articles, with a
\* "more" note exactly when k > 10, counting k - 10.
C17_LimitsAndNotes ==
    Formatted /\ multi_article_clusters(clusters) # <<>>
              /\ messages # <<NoNewsFound>> =>
        /\ LargestShown(clusters, ShownClusters(clusters, max_clusters),
                        max_clusters)
        /\ ListedAsClaimed(Join(messages),
                           ShownClusters(clusters, max_clusters),
                           single_article_cluster(clusters))

\* a cluster of six articles and eleven single articles, both with a note
C17_Witness ==
    /\ Formatted
    /\ max_clusters = 1
    /\ Len(multi_article_clusters(clusters)) = 2
    /\ Len(ShownClusters(clusters, max_clusters)[1].articles) = 6
    /\ Len(single_article_cluster(clusters)) = ManySingles
    /\ Len(ListedNotes(Join(messages))) = 2

\* C18: for every max_clusters >= 0 the returned list is never empty and
\* holds no empty string.
C18_NoEmptyPage ==
    Formatted /\ max_clusters >= 0 =>
        /\ messages # <<>>
        /\ \A i \in 1..Len(messages) : messages[i] # <<>>

\* max_clusters = 0 with nothing else to render gives the placeholder
C18_Witness ==
    /\ Formatted
    /\ max_clusters = 0
    /\ multi_article_clusters(clusters) # <<>>
    /\ messages = <<NoNewsFound>>

(***************************************************************************)
(* What the claim about the daily job speaks of                            *)
(***************************************************************************)
\* the ids of the first n returned users, in the returned order
IdsOfFirst(n) == [k \in 1..n |-> users[k].id]

\* C19: a user whose greeting or pipeline run raised does not stop the daily
\* job: the users attempted so far are always the first of the returned users,
\* each once and in the returned order; when a run has ended, by returning or
\* by raising, the loop goes on, to the next user or to the end of the job;
\* the job is over with every returned user attempted; and no exception
\* leaves the job once the users were returned.
C19_EveryUserAttempted ==
    /\ Len(attempted) <= Len(users)
    /\ attempted = IdsOfFirst(Len(attempted))
    /\ \A i, j \in 1..Len(attempted) : attempted[i] = attempted[j] => i = j
    /\ pc \in {"done", "escaped"} => ENABLED EndRun
    /\ pc = "next_user" => ENABLED (Greet \/ EndJob)
    /\ pc = "job_done" => Len(attempted) = Len(users)
    /\ pc = "job_raised" => users = <<>> /\ error \in DbFailures

\* the first user's iteration ended in the except clause, through the greeting
\* or through the pipeline, and the second user was attempted all the same
C19_Witness ==
    /\ pc = "job_done"
    /\ Len(users) = MaxUsers
    /\ Len(caught) >= 1
    /\ caught[1] = users[1].id
    /\ attempted = IdsOfFirst(MaxUsers)

====
